---- MODULE Spec2Model ----
(***************************************************************************)
(* A model of the carwatch listing-acquisition pipeline                    *)
(* (src/scrapers/carmax_scraper.py): the page fetcher _make_request, the   *)
(* two record extractors _convert_js_listing and _extract_car_data, the    *)
(* plausibility check _is_valid_listing and the de-duplication, filtering  *)
(* and status computation of scrape_listings.                              *)
(*                                                                         *)
(* Python text is a sequence of one-character strings, so that lower(),    *)
(* substring containment, regular-expression scans and int() are computed  *)
(* and not assumed.  A Python value is a tagged record (see below)     .  *)
(***************************************************************************)
EXTENDS Integers, Sequences, FiniteSets, TLC

(***************************************************************************)
(* Text                                                                    *)
(***************************************************************************)
LowerMap ==
    ("A" :> "a") @@ ("B" :> "b") @@ ("C" :> "c") @@ ("D" :> "d") @@ ("E" :> "e") @@
    ("F" :> "f") @@ ("G" :> "g") @@ ("H" :> "h") @@ ("I" :> "i") @@ ("J" :> "j") @@
    ("K" :> "k") @@ ("L" :> "l") @@ ("M" :> "m") @@ ("N" :> "n") @@ ("O" :> "o") @@
    ("P" :> "p") @@ ("Q" :> "q") @@ ("R" :> "r") @@ ("S" :> "s") @@ ("T" :> "t") @@
    ("U" :> "u") @@ ("V" :> "v") @@ ("W" :> "w") @@ ("X" :> "x") @@ ("Y" :> "y") @@
    ("Z" :> "z")

\* str.lower()
Lower(s) ==
    [k \in 1..Len(s) |-> IF s[k] \in DOMAIN LowerMap THEN LowerMap[s[k]] ELSE s[k]]

\* needle in hay (Python substring test; the empty needle is in every text)
Contains(needle, hay) ==
    \E k \in 1..(Len(hay) - Len(needle) + 1) :
        SubSeq(hay, k, k + Len(needle) - 1) = needle

\* s.startswith(p)
StartsWith(s, p) ==
    Len(p) <= Len(s) /\ SubSeq(s, 1, Len(p)) = p

DigitVal ==
    ("0" :> 0) @@ ("1" :> 1) @@ ("2" :> 2) @@ ("3" :> 3) @@ ("4" :> 4) @@
    ("5" :> 5) @@ ("6" :> 6) @@ ("7" :> 7) @@ ("8" :> 8) @@ ("9" :> 9)

DigitChar == <<"0", "1", "2", "3", "4", "5", "6", "7", "8", "9">>

IsDigit(c) == c \in DOMAIN DigitVal

AllDigits(s) == \A k \in 1..Len(s) : IsDigit(s[k])

\* the number written by a non-empty run of decimal digits
RECURSIVE StrToNat(_)
StrToNat(s) ==
    IF Len(s) = 0 THEN 0
    ELSE 10 * StrToNat(SubSeq(s, 1, Len(s) - 1)) + DigitVal[s[Len(s)]]

\* str(n) for n >= 0
RECURSIVE NatToStr(_)
NatToStr(n) ==
    IF n < 10 THEN <<DigitChar[n + 1]>>
    ELSE NatToStr(n \div 10) \o <<DigitChar[(n % 10) + 1]>>

\* str(n)
IntToStr(n) == IF n < 0 THEN <<"-">> \o NatToStr(0 - n) ELSE NatToStr(n)

\* s.replace(',', '')
RemoveCommas(s) == SelectSeq(s, LAMBDA c : c # ",")

\* s.strip() for blanks
RECURSIVE Strip(_)
Strip(s) ==
    IF Len(s) = 0 THEN s
    ELSE IF s[1] = " " THEN Strip(Tail(s))
    ELSE IF s[Len(s)] = " " THEN Strip(SubSeq(s, 1, Len(s) - 1))
    ELSE s

\* the longest prefix of s made of digits
RECURSIVE DigitPrefix(_)
DigitPrefix(s) ==
    IF Len(s) = 0 \/ ~IsDigit(s[1]) THEN <<>>
    ELSE <<s[1]>> \o DigitPrefix(Tail(s))

\* re.search(r'([\d,]+)', s) on a text without commas: the first maximal run
\* of digits, or <<>> when there is no match
RECURSIVE FirstDigitRun(_)
FirstDigitRun(s) ==
    IF Len(s) = 0 THEN <<>>
    ELSE IF IsDigit(s[1]) THEN DigitPrefix(s)
    ELSE FirstDigitRun(Tail(s))

\* re.search(r'(20\d{2})', s): the first "20dd", or <<>> when there is none
RECURSIVE FirstYear(_)
FirstYear(s) ==
    IF Len(s) < 4 THEN <<>>
    ELSE IF s[1] = "2" /\ s[2] = "0" /\ IsDigit(s[3]) /\ IsDigit(s[4])
         THEN SubSeq(s, 1, 4)
    ELSE FirstYear(Tail(s))

(***************************************************************************)
(* Python values: kind is the type, int the number of an int or bool, str *)
(* the characters of a str.  Absent is a key that is not in a dict.        *)
(***************************************************************************)
Absent   == [kind |-> "absent", int |-> 0, str |-> <<>>]
None     == [kind |-> "none", int |-> 0, str |-> <<>>]
IntV(n)  == [kind |-> "int", int |-> n, str |-> <<>>]
StrV(x)  == [kind |-> "str", int |-> 0, str |-> x]
BoolV(b) == [kind |-> "bool", int |-> IF b THEN 1 ELSE 0, str |-> <<>>]

\* bool(v)
Truthy(v) ==
    CASE v.kind = "int"  -> v.int # 0
      [] v.kind = "bool" -> v.int = 1
      [] v.kind = "str"  -> v.str # <<>>
      [] OTHER        -> FALSE

IsNum(v) == v.kind \in {"int", "bool"}

\* v == w
PyEq(v, w) ==
    IF IsNum(v) /\ IsNum(w) THEN v.int = w.int ELSE v = w

\* str(v), as an f-string formats it
PyStr(v) ==
    CASE v.kind = "int"  -> IntToStr(v.int)
      [] v.kind = "str"  -> v.str
      [] v.kind = "bool" -> IF v.int = 1 THEN <<"T", "r", "u", "e">>
                                     ELSE <<"F", "a", "l", "s", "e">>
      [] OTHER        -> <<"N", "o", "n", "e">>

\* dict.get(key, default)
Get(d, key, default) == IF d[key] = Absent THEN default ELSE d[key]

\* the text after an optional sign
Unsigned(s) ==
    IF Len(s) > 0 /\ s[1] \in {"+", "-"} THEN Tail(s) ELSE s

\* int(v) raises ValueError or TypeError
IntRaises(v) ==
    CASE IsNum(v)     -> FALSE
      [] v.kind = "str"  -> LET u == Unsigned(Strip(v.str))
                         IN  Len(u) = 0 \/ ~AllDigits(u)
      [] OTHER        -> TRUE

\* int(v) when it does not raise
IntOf(v) ==
    IF IsNum(v) THEN v.int
    ELSE LET w == Strip(v.str)
             n == StrToNat(Unsigned(w))
         IN  IF Len(w) > 0 /\ w[1] = "-" THEN 0 - n ELSE n

(***************************************************************************)
(* CarMaxScraper: the fields set by __init__ are the record self           *)
(* (make, model: text; year_start, year_end: integers; max_mileage,        *)
(* max_price: None or an int; transmission: text).                         *)
(***************************************************************************)
base_url ==
    <<"h", "t", "t", "p", "s", ":", "/", "/", "w", "w", "w", ".",
      "c", "a", "r", "m", "a", "x", ".", "c", "o", "m">>

cars_path == <<"/", "c", "a", "r", "s", "/">>

\* the keys _convert_js_listing reads from an embedded car object
JsKeys ==
    {"year", "make", "model", "basePrice", "price", "listPrice", "mileage",
     "odometer", "storeCity", "stateAbbreviation", "location", "city", "state",
     "url", "stockNumber", "transmission", "transmissionType",
     "isReserved", "isSaleable", "isComingSoon"}

\* the dict both extractors start from; the three status keys and 'status'
\* are not in it
NewListing ==
    [source |-> StrV(<<"C", "a", "r", "M", "a", "x">>),
     title |-> StrV(<<>>), price |-> None, mileage |-> None,
     location |-> StrV(<<>>), url |-> StrV(<<>>), year |-> None,
     transmission |-> StrV(<<>>),
     is_reserved |-> Absent, is_saleable |-> Absent, is_coming_soon |-> Absent,
     status |-> Absent]

manual_keywords ==
    << <<"m", "a", "n", "u", "a", "l">>, <<"6", "-", "s", "p", "e", "e", "d">>,
       <<"6", " ", "s", "p", "e", "e", "d">>, <<"s", "t", "i", "c", "k">> >>

automatic_keywords ==
    << <<"a", "u", "t", "o", "m", "a", "t", "i", "c">>, <<"a", "u", "t", "o">> >>

\* any(keyword in text for keyword in keywords)
AnyKeyword(keywords, text) ==
    \E k \in 1..Len(keywords) : Contains(keywords[k], text)

\* f"{a}, {b}"
CommaJoin(a, b) == StrV(PyStr(a) \o <<",", " ">> \o PyStr(b))

\* lines 177-180: year and title
ConvertTitle(js_data) ==
    LET year == Get(js_data, "year", None)
    IN  [NewListing EXCEPT
            !.year = year,
            !.title = StrV(PyStr(year) \o <<" ">>
                           \o PyStr(Get(js_data, "make", StrV(<<>>))) \o <<" ">>
                           \o PyStr(Get(js_data, "model", StrV(<<>>))))]

\* lines 183-188: only basePrice goes through int()
ConvertPrice(js_data, listing) ==
    IF js_data["basePrice"] # Absent
    THEN [listing EXCEPT !.price = IntV(IntOf(js_data["basePrice"]))]
    ELSE IF js_data["price"] # Absent
    THEN [listing EXCEPT !.price = js_data["price"]]
    ELSE IF js_data["listPrice"] # Absent
    THEN [listing EXCEPT !.price = js_data["listPrice"]]
    ELSE listing

\* lines 191-194
ConvertMileage(js_data, listing) ==
    IF js_data["mileage"] # Absent
    THEN [listing EXCEPT !.mileage = js_data["mileage"]]
    ELSE IF js_data["odometer"] # Absent
    THEN [listing EXCEPT !.mileage = js_data["odometer"]]
    ELSE listing

\* lines 197-202
ConvertLocation(js_data, listing) ==
    IF js_data["storeCity"] # Absent /\ js_data["stateAbbreviation"] # Absent
    THEN [listing EXCEPT !.location =
            CommaJoin(js_data["storeCity"], js_data["stateAbbreviation"])]
    ELSE IF js_data["location"] # Absent
    THEN [listing EXCEPT !.location = js_data["location"]]
    ELSE IF js_data["city"] # Absent /\ js_data["state"] # Absent
    THEN [listing EXCEPT !.location = CommaJoin(js_data["city"], js_data["state"])]
    ELSE listing

\* lines 205-208
ConvertUrl(js_data, listing) ==
    IF js_data["url"] # Absent
    THEN [listing EXCEPT !.url = js_data["url"]]
    ELSE IF js_data["stockNumber"] # Absent
    THEN [listing EXCEPT !.url =
            StrV(base_url \o cars_path \o PyStr(js_data["stockNumber"]))]
    ELSE listing

\* lines 211-214
ConvertTransmission(js_data, listing) ==
    IF js_data["transmission"] # Absent
    THEN [listing EXCEPT !.transmission = js_data["transmission"]]
    ELSE IF js_data["transmissionType"] # Absent
    THEN [listing EXCEPT !.transmission = js_data["transmissionType"]]
    ELSE listing

\* lines 217-219
ConvertStatus(js_data, listing) ==
    [listing EXCEPT
        !.is_reserved = Get(js_data, "isReserved", BoolV(FALSE)),
        !.is_saleable = Get(js_data, "isSaleable", BoolV(TRUE)),
        !.is_coming_soon = Get(js_data, "isComingSoon", BoolV(FALSE))]

\* _convert_js_listing: the statements of the try block in order; int() of an
\* unparseable basePrice raises, the except clause logs, and the listing is
\* returned as it stands at that point
convert_js_listing(js_data) ==
    LET l1 == ConvertTitle(js_data)
    IN  IF js_data["basePrice"] # Absent /\ IntRaises(js_data["basePrice"])
        THEN l1
        ELSE ConvertStatus(js_data,
               ConvertTransmission(js_data,
                 ConvertUrl(js_data,
                   ConvertLocation(js_data,
                     ConvertMileage(js_data,
                       ConvertPrice(js_data, l1))))))

(***************************************************************************)
(* _parse_javascript_data.  Of the page text the model keeps what the      *)
(* regular expressions find in it: for each of the four js_patterns, in    *)
(* order, the list of its matches, and for each of the two car_patterns   *)
(* the list of its group tuples.  A match is <<parses, cars_data>>:        *)
(* whether json.loads accepts '[' + match + ']' and the list it gives.     *)
(***************************************************************************)
js_patterns == 4
car_patterns == 2

Parsed(cars_data) == <<TRUE, cars_data>>
JSONDecodeError == <<FALSE, <<>>>>

\* lines 123-132 with the first match returned whether it parses or not
ScanMatches_FirstMatch(matches) ==
    IF Len(matches) = 0 THEN <<>> ELSE matches[1][2]

\* lines 123-132: the first match of one pattern that parses to a non-empty
\* list, or <<>> when the loop ends without a return
RECURSIVE ScanMatches(_)
ScanMatches(matches) ==
    IF Len(matches) = 0 THEN <<>>
    ELSE IF matches[1][1] /\ Len(matches[1][2]) > 0 THEN matches[1][2]
    ELSE ScanMatches(Tail(matches))

\* lines 121-132: the patterns in their fixed order
RECURSIVE ScanPatterns(_)
ScanPatterns(found) ==
    IF Len(found) = 0 THEN <<>>
    ELSE IF ScanMatches(found[1]) # <<>> THEN ScanMatches(found[1])
    ELSE ScanPatterns(Tail(found))

\* ss[1] + ss[2] + ...
RECURSIVE Flatten(_)
Flatten(ss) == IF Len(ss) = 0 THEN <<>> ELSE ss[1] \o Flatten(Tail(ss))

\* lines 145-150: the dict of one group tuple; year is int(match[1]); the
\* key 'vin' is left out, no reader of the dict looks at it
car_data(match) ==
    ("year" :> IntV(IntOf(StrV(match[2])))) @@ ("make" :> StrV(match[3]))
    @@ ("model" :> StrV(match[4])) @@ [k \in JsKeys |-> Absent]

\* lines 140-155 and 157-160: the dicts of all group tuples, or [] when
\* int(match[1]) raises for one of them
SingleCars(groups) ==
    LET matches == Flatten(groups)
    IN  IF \E k \in 1..Len(matches) : IntRaises(StrV(matches[k][2]))
        THEN <<>>
        ELSE [k \in 1..Len(matches) |-> car_data(matches[k])]

\* _parse_javascript_data
parse_javascript_data(html_content) ==
    LET cars_data == ScanPatterns(html_content.arrays)
    IN  IF cars_data # <<>> THEN cars_data
        ELSE SingleCars(html_content.singles)

(***************************************************************************)
(* A markup card is what the selectors see of one car element: for each    *)
(* selector list the stripped text of the element each selector matches    *)
(* (Absent when it matches nothing), and the href of the first link.       *)
(***************************************************************************)
title_selectors == 7
price_selectors == 6
mileage_selectors == 6
location_selectors == 6

\* for selector in selectors: elem = select_one(selector); if elem: ... break
RECURSIVE SelectFirst(_)
SelectFirst(elems) ==
    IF Len(elems) = 0 THEN Absent
    ELSE IF elems[1] # Absent THEN elems[1]
    ELSE SelectFirst(Tail(elems))

\* lines 462-465 and 476-479: int of the first run of digits, commas removed
ScanNumber(text, old) ==
    LET run == FirstDigitRun(RemoveCommas(text))
    IN  IF run # <<>> THEN IntV(StrToNat(run)) ELSE old

\* urljoin(base_url, href) for an href that starts with one "/"
urljoin(base, href) == base \o href

\* _extract_car_data
extract_car_data(car_element) ==
    LET title_elem == SelectFirst(car_element.title)
        price_elem == SelectFirst(car_element.price)
        mileage_elem == SelectFirst(car_element.mileage)
        location_elem == SelectFirst(car_element.location)
        href == car_element.href
        title == IF title_elem # Absent THEN title_elem.str ELSE <<>>
        year_match == FirstYear(title)
        title_lower == Lower(title)
    IN  [NewListing EXCEPT
            !.title = StrV(title),
            !.price = IF price_elem # Absent
                      THEN ScanNumber(price_elem.str, None) ELSE None,
            !.mileage = IF mileage_elem # Absent
                        THEN ScanNumber(mileage_elem.str, None) ELSE None,
            !.location = IF location_elem # Absent THEN location_elem
                         ELSE StrV(<<>>),
            !.url = IF href = Absent THEN StrV(<<>>)
                    ELSE IF StartsWith(href.str, <<"/">>)
                    THEN StrV(urljoin(base_url, href.str))
                    ELSE href,
            !.year = IF title # <<>> /\ year_match # <<>>
                     THEN IntV(StrToNat(year_match)) ELSE None,
            !.transmission =
                IF AnyKeyword(manual_keywords, title_lower)
                THEN StrV(<<"m", "a", "n", "u", "a", "l">>)
                ELSE IF AnyKeyword(automatic_keywords, title_lower)
                THEN StrV(<<"a", "u", "t", "o", "m", "a", "t", "i", "c">>)
                ELSE StrV(<<>>)]

\* _is_valid_listing with the model test forgotten
is_valid_listing_MakeOnly(self, listing) ==
    /\ Truthy(listing.title)
    /\ Contains(Lower(self.make), Lower(listing.title.str))

\* _is_valid_listing: a non-empty title that contains make and model, all
\* lower-cased
is_valid_listing(self, listing) ==
    /\ Truthy(listing.title)
    /\ Contains(Lower(self.make), Lower(listing.title.str))
    /\ Contains(Lower(self.model), Lower(listing.title.str))

(***************************************************************************)
(* scrape_listings, lines 259-315: de-duplication, the four predicates and *)
(* the status text                                                         *)
(***************************************************************************)
\* the loop of lines 260-265 with a later duplicate taking the place of the
\* record seen first
RECURSIVE RemoveDuplicates_LastWins(_, _, _)
RemoveDuplicates_LastWins(todo, seen_urls, unique_listings) ==
    IF Len(todo) = 0 THEN unique_listings
    ELSE IF \E u \in seen_urls : PyEq(u, todo[1].url)
    THEN RemoveDuplicates_LastWins(Tail(todo), seen_urls,
            [i \in 1..Len(unique_listings) |->
                IF PyEq(unique_listings[i].url, todo[1].url)
                THEN todo[1] ELSE unique_listings[i]])
    ELSE RemoveDuplicates_LastWins(Tail(todo), seen_urls \cup {todo[1].url},
                                   Append(unique_listings, todo[1]))

\* lines 260-265: the loop over listings with the set seen_urls
RECURSIVE RemoveDuplicates(_, _, _)
RemoveDuplicates(todo, seen_urls, unique_listings) ==
    IF Len(todo) = 0 THEN unique_listings
    ELSE IF \E u \in seen_urls : PyEq(u, todo[1].url)
    THEN RemoveDuplicates(Tail(todo), seen_urls, unique_listings)
    ELSE RemoveDuplicates(Tail(todo), seen_urls \cup {todo[1].url},
                          Append(unique_listings, todo[1]))

\* line 271: ''.lower() of a value that is no str raises AttributeError;
\* lines 276, 289, 294: an int compared with a non-empty str raises TypeError
FilterRaises(self, listing) ==
    \/ listing.transmission.kind # "str"
    \/ Truthy(listing.year) /\ ~IsNum(listing.year)
    \/ Truthy(self.max_mileage) /\ Truthy(listing.mileage) /\ ~IsNum(listing.mileage)
    \/ Truthy(self.max_price) /\ Truthy(listing.price) /\ ~IsNum(listing.price)

\* line 276 without the upper bound
valid_year_NoUpperBound(self, listing) ==
    /\ Truthy(listing.year)
    /\ self.year_start <= listing.year.int

\* line 276: year and self.year_start <= year <= self.year_end
valid_year(self, listing) ==
    /\ Truthy(listing.year)
    /\ self.year_start <= listing.year.int
    /\ listing.year.int <= self.year_end

\* lines 279-283 without the lower() of line 271
transmission_match_CaseSensitive(self, listing) ==
    LET transmission == listing.transmission.str
    IN  IF self.transmission = "manual"
        THEN AnyKeyword(manual_keywords, transmission)
        ELSE IF self.transmission = "automatic"
        THEN AnyKeyword(automatic_keywords, transmission)
        ELSE TRUE

\* lines 279-283
transmission_match(self, listing) ==
    LET transmission == Lower(listing.transmission.str)
    IN  IF self.transmission = "manual"
        THEN AnyKeyword(manual_keywords, transmission)
        ELSE IF self.transmission = "automatic"
        THEN AnyKeyword(automatic_keywords, transmission)
        ELSE TRUE

\* lines 287-289: if self.max_mileage and mileage
mileage_match(self, listing) ==
    IF Truthy(self.max_mileage) /\ Truthy(listing.mileage)
    THEN listing.mileage.int <= self.max_mileage.int
    ELSE TRUE

\* lines 292-294 with a record without price failing a configured ceiling
price_match_AbsentFails(self, listing) ==
    IF Truthy(self.max_price)
    THEN Truthy(listing.price) /\ listing.price.int <= self.max_price.int
    ELSE TRUE

\* lines 292-294: if self.max_price and price
price_match(self, listing) ==
    IF Truthy(self.max_price) /\ Truthy(listing.price)
    THEN listing.price.int <= self.max_price.int
    ELSE TRUE

\* ', '.join(parts)
RECURSIVE Join(_)
Join(parts) ==
    IF Len(parts) = 0 THEN <<>>
    ELSE IF Len(parts) = 1 THEN parts[1]
    ELSE parts[1] \o <<",", " ">> \o Join(Tail(parts))

RESERVED == <<"R", "E", "S", "E", "R", "V", "E", "D">>
NOT_SALEABLE == <<"N", "O", "T", "_", "S", "A", "L", "E", "A", "B", "L", "E">>
COMING_SOON == <<"C", "O", "M", "I", "N", "G", "_", "S", "O", "O", "N">>
AVAILABLE == <<"A", "V", "A", "I", "L", "A", "B", "L", "E">>

\* lines 298-306 with the coming-soon flag tested first
status_str_ComingSoonFirst(listing) ==
    LET status_parts ==
            (IF Truthy(listing.is_coming_soon) THEN <<COMING_SOON>> ELSE <<>>)
         \o (IF Truthy(listing.is_reserved) THEN <<RESERVED>> ELSE <<>>)
         \o (IF ~Truthy(listing.is_saleable) THEN <<NOT_SALEABLE>> ELSE <<>>)
    IN  IF status_parts # <<>> THEN StrV(Join(status_parts)) ELSE StrV(AVAILABLE)

\* lines 298-306: listing.get(key) of a key that is not there is None
status_str(listing) ==
    LET status_parts ==
            (IF Truthy(listing.is_reserved) THEN <<RESERVED>> ELSE <<>>)
         \o (IF ~Truthy(listing.is_saleable) THEN <<NOT_SALEABLE>> ELSE <<>>)
         \o (IF Truthy(listing.is_coming_soon) THEN <<COMING_SOON>> ELSE <<>>)
    IN  IF status_parts # <<>> THEN StrV(Join(status_parts)) ELSE StrV(AVAILABLE)

\* the locals of one iteration of the filter loop, at line 296
Locals(self, listing) ==
    [valid_year |-> valid_year(self, listing),
     transmission_match |-> transmission_match(self, listing),
     mileage_match |-> mileage_match(self, listing),
     price_match |-> price_match(self, listing)]

\* line 296
Keep(v) ==
    v.valid_year /\ v.transmission_match /\ v.mileage_match /\ v.price_match

(***************************************************************************)
(* State                                                                   *)
(***************************************************************************)
VARIABLES
    self,               \* the scraper's search parameters
    pc,                 \* where scrape_listings is: "search", "filter", "returned"
    candidates,         \* number of candidates the extractors have produced
    listings,           \* scrape_listings: the candidates gathered, in order
    unique_listings,    \* scrape_listings: after de-duplication
    verdicts,           \* the locals of each filter iteration done so far
    filtered_listings,  \* scrape_listings: the records kept so far
    result,             \* what scrape_listings returned
    raised,             \* the outer except clause of scrape_listings ran
    rq_pc,              \* where _make_request is: "idle", "loop", "returned"
    rq_url,             \* _make_request: its url argument
    attempt,            \* _make_request: the loop variable
    rq_log,             \* the status of every HTTP attempt issued, in order
    headers,            \* session.headers: User-Agent, Referer, Sec-Fetch-Site
    response            \* what _make_request returned

\* the page walk of scrape_listings and _scrape_search_page
VARIABLES
    variant,            \* scrape_listings: index of search_url in search_urls
    page_listings,      \* _scrape_search_page: its local list listings
    page_num,           \* _scrape_search_page: the page counter
    soup,               \* _scrape_search_page: <<the page held in soup>>
    page,               \* <<the page of the latest response>>
    home_requests,      \* number of requests for the site entry point
    start_requests,     \* number of requests for the start page of a search_url
    page_requests,      \* number of requests of the walk of this search_url
    served,             \* matching entries on the pages served in this run
    stop                \* how the latest walk ended

\* one embedded-data extraction: _parse_javascript_data and the conversions
VARIABLES
    ex_pc,              \* "idle", "parse", "convert"
    ex_page,            \* <<the page given to _parse_javascript_data>>
    ex_cars,            \* what _parse_javascript_data returned
    converted           \* the results of _convert_js_listing, in order

\* main, the database and the notifier
VARIABLES
    m_pc,               \* where main is
    runs,               \* number of runs of main started
    now,                \* the clock of the database, in days
    environ,            \* EMAIL_USER, EMAIL_PASSWORD, NOTIFICATION_EMAIL,
                        \* SMTP_PORT as the latest run found them
    enabled,            \* EmailNotifier.enabled
    connected,          \* what test_connection returned in this run
    smtp_sessions,      \* number of connections made to the mail server
    rows,               \* the table listings, in the order of insertion
    next_id,            \* the next value of the AUTOINCREMENT column id
    first_id,           \* next_id when the latest run started
    digested,           \* ids of the rows whose listing was passed to
                        \* send_notification
    carmax_listings,    \* main: what scrape_listings returned
    all_new_listings,   \* main: the listings add_listing reported as new
    add_calls,          \* number of calls of add_listing in this run
    record,             \* <<the argument of the latest add_listing>>
    added,              \* what the latest add_listing returned
    send_calls,         \* number of calls of send_notification in this run
    digest,             \* the argument of the latest send_notification
    sent,               \* what the latest send_notification returned
    exit_code           \* the exit status of the latest run

scrape_vars ==
    <<self, pc, candidates, listings, unique_listings, verdicts,
      filtered_listings, result, raised>>

request_vars == <<rq_pc, rq_url, attempt, rq_log, headers, response>>

walk_vars ==
    <<variant, page_listings, page_num, soup, page, home_requests,
      start_requests, page_requests, served, stop>>

main_vars ==
    <<m_pc, runs, now, environ, enabled, connected, smtp_sessions, rows, next_id,
      first_id, digested,
      carmax_listings, all_new_listings, add_calls, record, added,
      send_calls, digest, sent, exit_code>>

extract_vars == <<ex_pc, ex_page, ex_cars, converted>>

vars == <<scrape_vars, request_vars, walk_vars, main_vars, extract_vars>>

(***************************************************************************)
(* Inputs: the search parameters, the embedded car objects and the markup  *)
(* cards a page may hold                                                   *)
(***************************************************************************)
\* how many candidates the extractors produce in one run
MaxCands == 2

\* src/config.py SEARCH_CONFIG
DefaultYearStart == 2016
DefaultYearEnd == 2019

BMW == <<"B", "M", "W">>
M2 == <<"M", "2">>

Transmissions == {"manual", "automatic", "any"}

\* (max_mileage, max_price) as parse_arguments passes them: None or an int
Ceilings ==
    {<<None, None>>, <<IntV(0), None>>, <<None, IntV(0)>>,
     <<IntV(40000), IntV(50000)>>, <<None, IntV(20000)>>}

Params(tr, c) ==
    [transmission |-> tr, make |-> BMW, model |-> M2,
     max_mileage |-> c[1], max_price |-> c[2],
     year_start |-> DefaultYearStart, year_end |-> DefaultYearEnd]

SearchParams ==
    {Params("manual", c) : c \in Ceilings}
    \cup {Params(tr, <<None, None>>) : tr \in Transmissions}

EmptyJs == [k \in JsKeys |-> Absent]

\* a car object with the keys of f
Js(f) == f @@ EmptyJs

url_1 == StrV(<<"/", "c", "/", "1">>)
url_2 == StrV(<<"/", "c", "/", "2">>)
SixSpeedManual ==
    StrV(<<"6", "-", "S", "p", "e", "e", "d", " ", "M", "a", "n", "u", "a", "l">>)
Automatic == StrV(<<"A", "u", "t", "o", "m", "a", "t", "i", "c">>)

\* the 2018 BMW M2, 6-Speed Manual, $45,000, 30,000 miles of the end-to-end
\* scenario
CarKeys ==
    ("year" :> IntV(2018)) @@ ("make" :> StrV(BMW)) @@ ("model" :> StrV(M2))
    @@ ("basePrice" :> IntV(45000)) @@ ("mileage" :> IntV(30000))
    @@ ("url" :> url_1) @@ ("transmission" :> SixSpeedManual)

\* that car with the keys of f on top
Car(f) == Js(f @@ CarKeys)

\* that car without the keys of gone, with the keys of f on top
CarWithout(gone, f) ==
    Js(f @@ [k \in (DOMAIN CarKeys) \ gone |-> CarKeys[k]])

JsPool ==
    {Car(<<>>), Car("url" :> url_2)}
    \cup {CarWithout({"url"}, "stockNumber" :> IntV(7)), CarWithout({"url"}, <<>>)}
    \cup {Car("year" :> y) :
            y \in {IntV(0), IntV(2016), IntV(2019), IntV(2020),
                   StrV(<<"2", "0", "1", "8">>)}}
    \cup {CarWithout({"year"}, <<>>)}
    \cup {Car("transmission" :> tr) :
            tr \in {Automatic, StrV(<<"S", "T", "I", "C", "K">>), None}}
    \cup {CarWithout({"transmission"}, <<>>),
          CarWithout({"transmission"},
                     "transmissionType" :> StrV(<<"6", " ", "s", "p", "e", "e", "d">>))}
    \cup {Car("basePrice" :> StrV(<<"$", "4", "5", ",", "0", "0", "0">>)),
          CarWithout({"basePrice"}, <<>>),
          CarWithout({"basePrice"}, "price" :> IntV(0)),
          CarWithout({"basePrice"}, "price" :> StrV(<<"4", "5", ",", "0", "0", "0">>))}
    \cup {CarWithout({"mileage"}, <<>>),
          CarWithout({"mileage"}, "odometer" :> IntV(50000))}
    \cup {Car("isReserved" :> BoolV(TRUE)),
          Car(("isSaleable" :> BoolV(FALSE)) @@ ("isComingSoon" :> BoolV(TRUE)))}
    \cup {Car(("make" :> StrV(<<"b", "m", "w">>)) @@ ("model" :> StrV(<<"m", "2">>))),
          Car("make" :> StrV(<<"A", "u", "d", "i">>)),
          Car("model" :> StrV(<<"X", "5">>))}

\* a selector list of n selectors of which the k-th matches an element with text v
At(n, k, v) == [j \in 1..n |-> IF j = k THEN v ELSE Absent]
NoMatch(n) == [j \in 1..n |-> Absent]

Card(title, price, mileage, href) ==
    [title |-> title, price |-> price, mileage |-> mileage,
     location |-> NoMatch(location_selectors), href |-> href]

CardPool ==
    LET t2018 == StrV(<<"2", "0", "1", "8", " ", "B", "M", "W", " ", "M", "2", " ",
                        "M", "a", "n", "u", "a", "l">>)
        t2020 == StrV(<<"B", "M", "W", " ", "M", "2", " ", "2", "0", "2", "0", " ",
                        "a", "u", "t", "o">>)
        tNoYear == StrV(<<"b", "m", "w", " ", "m", "2", " ", "s", "t", "i", "c", "k">>)
        p46 == StrV(<<"$", "4", "6", ",", "0", "0", "0", "*">>)
        pCall == StrV(<<"C", "a", "l", "l">>)
        m31 == StrV(<<"3", "1", "K", " ", "m", "i">>)
        car9 == StrV(<<"/", "c", "a", "r", "/", "9">>)
    IN  {Card(At(title_selectors, 1, t2018), At(price_selectors, 1, p46),
              At(mileage_selectors, 2, m31), car9),
         Card(At(title_selectors, 1, t2018), At(price_selectors, 1, pCall),
              NoMatch(mileage_selectors), Absent),
         Card(At(title_selectors, 2, t2020), NoMatch(price_selectors),
              NoMatch(mileage_selectors), url_2),
         Card(At(title_selectors, 7, tNoYear), At(price_selectors, 6, p46),
              NoMatch(mileage_selectors), car9),
         Card(NoMatch(title_selectors), At(price_selectors, 1, p46),
              NoMatch(mileage_selectors), car9)}

(***************************************************************************)
(* scrape_listings                                                         *)
(***************************************************************************)
RequestIdle ==
    /\ rq_pc = "idle" /\ rq_url = "" /\ attempt = 0 /\ rq_log = <<>>
    /\ headers = [user_agent |-> 1, referer |-> FALSE, sec_fetch_site |-> "none"]
    /\ response = "none"

WalkIdle ==
    /\ variant = 0 /\ page_listings = <<>> /\ page_num = 0
    /\ soup = <<>> /\ page = <<>>
    /\ home_requests = 0 /\ start_requests = 0 /\ page_requests = 0
    /\ served = 0 /\ stop = ""

MainIdle ==
    /\ m_pc = "idle" /\ runs = 0 /\ now = 0
    /\ environ = <<None, None, None, None>> /\ enabled = FALSE /\ smtp_sessions = 0
    /\ connected = FALSE
    /\ rows = <<>> /\ next_id = 1 /\ first_id = 1 /\ digested = {}
    /\ carmax_listings = <<>> /\ all_new_listings = <<>>
    /\ add_calls = 0 /\ record = <<>> /\ added = FALSE
    /\ send_calls = 0 /\ digest = <<>> /\ sent = FALSE /\ exit_code = 0

ExtractIdle ==
    /\ ex_pc = "idle" /\ ex_page = <<>> /\ ex_cars = <<>>
    /\ converted = <<>>

Init ==
    /\ self \in SearchParams
    /\ pc = "search"
    /\ candidates = 0
    /\ listings = <<>>
    /\ unique_listings = <<>>
    /\ verdicts = <<>>
    /\ filtered_listings = <<>>
    /\ result = <<>>
    /\ raised = FALSE
    /\ RequestIdle
    /\ WalkIdle
    /\ MainIdle
    /\ ExtractIdle

\* lines 344-346, 377-378, 408-410: only a valid listing is appended
Appended(listing) ==
    IF is_valid_listing(self, listing) THEN Append(listings, listing) ELSE listings

\* _scrape_search_page lines 340-348: one embedded car object of a start page
JsStartPage ==
    /\ pc = "search"
    /\ candidates < MaxCands
    /\ candidates' = candidates + 1
    /\ \E js_listing \in JsPool : listings' = Appended(convert_js_listing(js_listing))
    /\ UNCHANGED <<self, pc, unique_listings, verdicts, filtered_listings,
                   result, raised, request_vars, walk_vars, main_vars,
                   extract_vars>>

\* _scrape_search_page lines 374-381: one car element of a start page
MarkupStartPage ==
    /\ pc = "search"
    /\ candidates < MaxCands
    /\ candidates' = candidates + 1
    /\ \E car_element \in CardPool : listings' = Appended(extract_car_data(car_element))
    /\ UNCHANGED <<self, pc, unique_listings, verdicts, filtered_listings,
                   result, raised, request_vars, walk_vars, main_vars,
                   extract_vars>>

\* _scrape_search_page lines 406-412: one embedded car object of a later page
JsNextPage ==
    /\ pc = "search"
    /\ candidates < MaxCands
    /\ candidates' = candidates + 1
    /\ \E js_listing \in JsPool : listings' = Appended(convert_js_listing(js_listing))
    /\ UNCHANGED <<self, pc, unique_listings, verdicts, filtered_listings,
                   result, raised, request_vars, walk_vars, main_vars,
                   extract_vars>>

\* lines 259-265: all search variants are done; remove duplicates
Deduplicate ==
    /\ pc = "search"
    /\ pc' = "filter"
    /\ unique_listings' = RemoveDuplicates(listings, {}, <<>>)
    /\ UNCHANGED <<self, candidates, listings, verdicts, filtered_listings,
                   result, raised, request_vars, walk_vars, main_vars,
                   extract_vars>>

\* lines 269-312: one iteration of the filter loop
FilterOne ==
    /\ pc = "filter"
    /\ Len(verdicts) < Len(unique_listings)
    /\ LET listing == unique_listings[Len(verdicts) + 1]
           v == Locals(self, listing)
       IN  /\ ~FilterRaises(self, listing)
           /\ verdicts' = Append(verdicts, v)
           /\ filtered_listings' =
                IF Keep(v)
                THEN Append(filtered_listings,
                            [listing EXCEPT !.status = status_str(listing)])
                ELSE filtered_listings
    /\ UNCHANGED <<self, pc, candidates, listings, unique_listings, result,
                   raised, request_vars, walk_vars, main_vars,
                   extract_vars>>

\* lines 317-319: an iteration raised; the except clause returns []
FilterFails ==
    /\ pc = "filter"
    /\ Len(verdicts) < Len(unique_listings)
    /\ FilterRaises(self, unique_listings[Len(verdicts) + 1])
    /\ pc' = "returned"
    /\ raised' = TRUE
    /\ result' = <<>>
    /\ UNCHANGED <<self, candidates, listings, unique_listings, verdicts,
                   filtered_listings, request_vars, walk_vars, main_vars,
                   extract_vars>>

\* lines 314-315
Return ==
    /\ pc = "filter"
    /\ Len(verdicts) = Len(unique_listings)
    /\ pc' = "returned"
    /\ result' = filtered_listings
    /\ UNCHANGED <<self, candidates, listings, unique_listings, verdicts,
                   filtered_listings, raised, request_vars, walk_vars, main_vars,
                   extract_vars>>

Next ==
    \/ JsStartPage
    \/ MarkupStartPage
    \/ JsNextPage
    \/ Deduplicate
    \/ FilterOne
    \/ FilterFails
    \/ Return

Spec == Init /\ [][Next]_vars

(***************************************************************************)
(* Properties of scrape_listings                                           *)
(***************************************************************************)
\* a record as it was before line 307 set its status
Stripped(r) == [r EXCEPT !.status = Absent]

\* the k-th candidate is the first one with its url
FirstSeen(k) == \A m \in 1..(k - 1) : listings[m].url # listings[k].url

\* the i-th de-duplicated record is in the returned list
Returned(i) ==
    \E j \in 1..Len(result) : Stripped(result[j]) = unique_listings[i]

\* the filter loop has run to its end and line 315 has returned
Completed == pc = "returned" /\ ~raised

\* C1: after de-duplication the list holds, in order, exactly the candidates
\* that are the first with their url, and every returned record is the
\* first-encountered candidate of its url; no two returned records share a url.
C1_FirstSeenWins ==
    /\ pc # "search" =>
        /\ Len(unique_listings) = Cardinality({k \in 1..Len(listings) : FirstSeen(k)})
        /\ \A k \in 1..Len(listings) :
              FirstSeen(k) =>
                unique_listings[Cardinality({m \in 1..k : FirstSeen(m)})] = listings[k]
    /\ \A i, j \in 1..Len(result) : i # j => result[i].url # result[j].url
    /\ \A j \in 1..Len(result) :
          \E k \in 1..Len(listings) :
              FirstSeen(k) /\ listings[k] = Stripped(result[j])

\* C1 witness: two different candidates with one url were gathered and the
\* returned list holds the first of them only.
C1_Witness ==
    /\ Completed
    /\ Len(listings) = 2
    /\ listings[1].url = listings[2].url
    /\ listings[1] # listings[2]
    /\ Len(result) = 1
    /\ Stripped(result[1]) = listings[1]

\* year is present and within [year_start, year_end]
YearInRange(year) ==
    year.kind = "int" /\ self.year_start <= year.int /\ year.int <= self.year_end

\* C2: the year predicate of a de-duplicated record holds iff its year is
\* present and within the configured range, and no returned record has an
\* absent or out-of-range year.
C2_ValidYear ==
    /\ \A i \in 1..Len(verdicts) :
          verdicts[i].valid_year <=> YearInRange(unique_listings[i].year)
    /\ \A j \in 1..Len(result) : YearInRange(result[j].year)

\* C2 witness: a record that passes the three other predicates is left out for
\* its year alone, next to a record on the edge of the range that is returned.
C2_Witness ==
    /\ Completed
    /\ \E i \in 1..Len(verdicts) :
          /\ ~verdicts[i].valid_year
          /\ verdicts[i].transmission_match
          /\ verdicts[i].mileage_match
          /\ verdicts[i].price_match
          /\ ~Returned(i)
    /\ \E i \in 1..Len(verdicts) :
          /\ unique_listings[i].year.int \in {self.year_start, self.year_end}
          /\ Returned(i)

\* the transmission rule of the specification, over the lower-cased text
TransmissionRule(preference, text) ==
    LET low == Lower(text)
        has(w) == Contains(w, low)
    IN  CASE preference = "manual" ->
               \/ has(<<"m", "a", "n", "u", "a", "l">>)
               \/ has(<<"6", "-", "s", "p", "e", "e", "d">>)
               \/ has(<<"6", " ", "s", "p", "e", "e", "d">>)
               \/ has(<<"s", "t", "i", "c", "k">>)
          [] preference = "automatic" ->
               \/ has(<<"a", "u", "t", "o", "m", "a", "t", "i", "c">>)
               \/ has(<<"a", "u", "t", "o">>)
          [] preference = "any" -> TRUE

\* C3: the transmission predicate is the keyword rule applied to the
\* preference and the lower-cased transmission text; under 'manual',
\* "6-Speed Manual" passes, "Automatic" and the empty text do not.
C3_TransmissionFilter ==
    \A i \in 1..Len(verdicts) :
        LET text == unique_listings[i].transmission
        IN  /\ verdicts[i].transmission_match
                = TransmissionRule(self.transmission, text.str)
            /\ self.transmission = "manual" =>
                /\ text = SixSpeedManual => verdicts[i].transmission_match
                /\ text = Automatic => ~verdicts[i].transmission_match
                /\ text = StrV(<<>>) => ~verdicts[i].transmission_match

\* C3 witness: under 'manual' a "6-Speed Manual" record was returned and an
\* "Automatic" one, in range and under the ceilings, was left out.
C3_Witness ==
    /\ Completed
    /\ self.transmission = "manual"
    /\ \E i \in 1..Len(verdicts) :
          unique_listings[i].transmission = SixSpeedManual /\ Returned(i)
    /\ \E i \in 1..Len(verdicts) :
          /\ unique_listings[i].transmission = Automatic
          /\ verdicts[i].valid_year
          /\ ~Returned(i)

\* C4: a record without mileage passes the mileage predicate and a record
\* without price passes the price predicate under every ceiling; it is
\* returned iff the remaining predicates hold.
C4_AbsentNotExcluded ==
    \A i \in 1..Len(verdicts) :
        LET l == unique_listings[i]
            v == verdicts[i]
        IN  /\ l.mileage = None =>
                /\ v.mileage_match
                /\ Completed =>
                     (Returned(i) <=>
                        v.valid_year /\ v.transmission_match /\ v.price_match)
            /\ l.price = None =>
                /\ v.price_match
                /\ Completed =>
                     (Returned(i) <=>
                        v.valid_year /\ v.transmission_match /\ v.mileage_match)

\* C4 witness: with a price ceiling of 20000 a record without price was
\* returned, and with a mileage ceiling a record without mileage was.
C4_Witness ==
    /\ Completed
    /\ \E i \in 1..Len(verdicts) :
          /\ unique_listings[i].price = None
          /\ unique_listings[i].mileage # None
          /\ Truthy(self.max_price)
          /\ Returned(i)

\* C5: with a ceiling configured, 0 included, a record with a present
\* non-negative value fails the predicate iff the value exceeds the ceiling;
\* with no ceiling the predicate is true.
C5_CeilingExact ==
    \A i \in 1..Len(verdicts) :
        LET l == unique_listings[i]
            v == verdicts[i]
        IN  /\ self.max_mileage = None => v.mileage_match
            /\ self.max_price = None => v.price_match
            /\ self.max_mileage.kind = "int" /\ l.mileage.kind = "int" /\ l.mileage.int >= 0
                => (~v.mileage_match <=> l.mileage.int > self.max_mileage.int)
            /\ self.max_price.kind = "int" /\ l.price.kind = "int" /\ l.price.int >= 0
                => (~v.price_match <=> l.price.int > self.max_price.int)

\* the title is not empty and contains make and model, case ignored
TitleNamesCar(r) ==
    /\ r.title.kind = "str"
    /\ r.title.str # <<>>
    /\ Contains(Lower(self.make), Lower(r.title.str))
    /\ Contains(Lower(self.model), Lower(r.title.str))

\* C6: every gathered candidate and every returned record has a non-empty
\* title that contains the configured make and model, case ignored.
C6_TitleHasMakeModel ==
    /\ \A k \in 1..Len(listings) : TitleNamesCar(listings[k])
    /\ \A j \in 1..Len(result) : TitleNamesCar(result[j])

\* C6 witness: a candidate was turned down, and a record whose title spells
\* the make in another case than the configuration was returned.
C6_Witness ==
    /\ Completed
    /\ candidates > Len(listings)
    /\ \E j \in 1..Len(result) : ~Contains(self.make, result[j].title.str)

\* absent or a non-negative integer
AbsentOrNat(v) == v = None \/ (v.kind = "int" /\ v.int >= 0)

\* C7: year, price and mileage of every extracted candidate and of every
\* returned record are absent or non-negative integers.
C7_NumericFields ==
    /\ \A k \in 1..Len(listings) :
          /\ AbsentOrNat(listings[k].year)
          /\ AbsentOrNat(listings[k].price)
          /\ AbsentOrNat(listings[k].mileage)
    /\ \A j \in 1..Len(result) :
          /\ AbsentOrNat(result[j].year)
          /\ AbsentOrNat(result[j].price)
          /\ AbsentOrNat(result[j].mileage)

\* C8: every returned record has a non-empty url.
C8_UrlPresent ==
    \A j \in 1..Len(result) :
        result[j].url.kind = "str" /\ result[j].url.str # <<>>

\* no reservation, not-saleable or coming-soon flag was extracted
NoFlags(r) ==
    /\ r.is_reserved \in {Absent, BoolV(FALSE)}
    /\ r.is_saleable \in {Absent, BoolV(TRUE)}
    /\ r.is_coming_soon \in {Absent, BoolV(FALSE)}

\* C9: a returned record for which no flag was extracted has status AVAILABLE.
C9_DefaultAvailable ==
    \A j \in 1..Len(result) :
        NoFlags(result[j]) => result[j].status = StrV(AVAILABLE)

\* C15: an error in the handling of one candidate takes away at most that
\* candidate: every other candidate that satisfies the criteria is returned.
C15_PartialResults ==
    pc = "returned" =>
        \A i \in 1..Len(unique_listings) :
            (/\ ~FilterRaises(self, unique_listings[i])
             /\ Keep(Locals(self, unique_listings[i]))) => Returned(i)

\* the status of a record that is reserved, not saleable, coming soon
StatusOf(reserved, not_saleable, coming_soon) ==
    CASE reserved /\ not_saleable /\ coming_soon ->
            <<"R", "E", "S", "E", "R", "V", "E", "D", ",", " ", "N", "O",
              "T", "_", "S", "A", "L", "E", "A", "B", "L", "E", ",", " ",
              "C", "O", "M", "I", "N", "G", "_", "S", "O", "O", "N">>
      [] reserved /\ not_saleable /\ ~coming_soon ->
            <<"R", "E", "S", "E", "R", "V", "E", "D", ",", " ", "N", "O",
              "T", "_", "S", "A", "L", "E", "A", "B", "L", "E">>
      [] reserved /\ ~not_saleable /\ coming_soon ->
            <<"R", "E", "S", "E", "R", "V", "E", "D", ",", " ", "C", "O",
              "M", "I", "N", "G", "_", "S", "O", "O", "N">>
      [] reserved /\ ~not_saleable /\ ~coming_soon ->
            <<"R", "E", "S", "E", "R", "V", "E", "D">>
      [] ~reserved /\ not_saleable /\ coming_soon ->
            <<"N", "O", "T", "_", "S", "A", "L", "E", "A", "B", "L", "E",
              ",", " ", "C", "O", "M", "I", "N", "G", "_", "S", "O", "O", "N">>
      [] ~reserved /\ not_saleable /\ ~coming_soon ->
            <<"N", "O", "T", "_", "S", "A", "L", "E", "A", "B", "L", "E">>
      [] ~reserved /\ ~not_saleable /\ coming_soon ->
            <<"C", "O", "M", "I", "N", "G", "_", "S", "O", "O", "N">>
      [] OTHER ->
            <<"A", "V", "A", "I", "L", "A", "B", "L", "E">>

max_retries == 3

\* the user_agents list of lines 65-70
user_agents == 4

\* self.search_url, line 33 (quote() leaves letters and digits as they are)
search_url(make, model) ==
    base_url \o cars_path \o Lower(make) \o <<"/">> \o Lower(model)

\* the exceptions session.get raises for a transport failure, all of them
\* subclasses of requests.RequestException
TransportErrors == {"ConnectionError", "Timeout", "TooManyRedirects"}

\* line 99: except requests.RequestException
Caught(exc) == exc \in TransportErrors

\* line 101 with the test on the attempt number dropped
GivesUp_AtOnce(n) == n >= 0

\* line 101: if attempt == max_retries - 1
GivesUp(n) == n = max_retries - 1

\* lines 72-82: the headers of one attempt
AttemptHeaders(ua) ==
    LET search == Contains(<<"c", "a", "r", "m", "a", "x", ".", "c", "o", "m",
                             "/", "c", "a", "r", "s", "/">>, rq_url)
    IN  [user_agent |-> ua, referer |-> search,
         sec_fetch_site |-> IF search THEN "same-origin" ELSE "none"]

InitRequest ==
    /\ self = Params("manual", <<None, None>>)
    /\ pc = "search"
    /\ candidates = 0
    /\ listings = <<>>
    /\ unique_listings = <<>>
    /\ verdicts = <<>>
    /\ filtered_listings = <<>>
    /\ result = <<>>
    /\ raised = FALSE
    /\ rq_pc = "loop"
    /\ rq_url \in {base_url, search_url(BMW, M2)}
    /\ attempt = 0
    /\ rq_log = <<>>
    /\ headers = [user_agent |-> 1, referer |-> FALSE, sec_fetch_site |-> "none"]
    /\ response = "pending"
    /\ WalkIdle
    /\ MainIdle
    /\ ExtractIdle

\* one iteration of the loop of line 58 up to the answer of session.get
Issue(status) ==
    /\ rq_pc = "loop"
    /\ attempt < max_retries
    /\ rq_log' = Append(rq_log, status)
    /\ \E ua \in 1..user_agents : headers' = AttemptHeaders(ua)
    /\ UNCHANGED <<scrape_vars, rq_url, walk_vars, main_vars, extract_vars>>

\* continue; when the range is exhausted line 106 returns None
Continue ==
    /\ attempt' = attempt + 1
    /\ IF attempt + 1 < max_retries
       THEN rq_pc' = "loop" /\ response' = response
       ELSE rq_pc' = "returned" /\ response' = "None"

\* lines 87-88
AttemptOk ==
    /\ Issue("200")
    /\ rq_pc' = "returned"
    /\ response' = "Response"
    /\ attempt' = attempt

\* lines 89-91
AttemptForbidden == Issue("403") /\ Continue

\* lines 92-94
AttemptTeapot == Issue("418") /\ Continue

\* lines 95-97
AttemptOtherStatus == \E status \in {"500", "302"} : Issue(status) /\ Continue

\* lines 99-104
AttemptRaises ==
    \E exc \in TransportErrors :
        /\ Issue(exc)
        /\ IF ~Caught(exc)
           THEN rq_pc' = "raised" /\ response' = response /\ attempt' = attempt
           ELSE IF GivesUp(attempt)
           THEN rq_pc' = "returned" /\ response' = "None" /\ attempt' = attempt
           ELSE Continue

NextRequest ==
    \/ AttemptOk
    \/ AttemptForbidden
    \/ AttemptTeapot
    \/ AttemptOtherStatus
    \/ AttemptRaises

SpecRequest == InitRequest /\ [][NextRequest]_vars

\* C10: one call issues at most 3 attempts; the first 200 ends it with that
\* response; every other status and every transport error is followed by
\* another attempt until the third; None is returned only after three failed
\* attempts; no transport exception reaches the caller.
C10_BoundedRetry ==
    /\ Len(rq_log) <= 3
    /\ \A k \in 1..(Len(rq_log) - 1) : rq_log[k] # "200"
    /\ rq_pc # "raised"
    /\ rq_pc = "returned" <=> response \in {"Response", "None"}
    /\ response = "Response" <=> (rq_log # <<>> /\ rq_log[Len(rq_log)] = "200")
    /\ response = "None" <=>
          (Len(rq_log) = 3 /\ \A k \in 1..3 : rq_log[k] # "200")

\* C10 witness: a refused attempt, a transport error and a third failure, and
\* only then None.
C10_Witness ==
    /\ rq_pc = "returned"
    /\ response = "None"
    /\ rq_log[1] = "403"
    /\ rq_log[2] \in TransportErrors
    /\ Len(rq_log) = 3

(***************************************************************************)
(* scrape_listings and _scrape_search_page, page by page.  A page is what  *)
(* the code looks at in a response: the matches of the embedded-data       *)
(* patterns (arrays, singles), the car elements the markup selectors find   *)
(* (cards), the href of the element the next_selectors find (next_href)     *)
(* and the hrefs of all links (links).                                      *)
(***************************************************************************)
\* line 418: if page_num > 10
page_limit == 10

\* the number of entries of search_urls, lines 241-249
search_variants == 6

\* matching entries on the pages the site serves in one run
MaxServed == 2

Page(arrays, singles, cards, next_href, links) ==
    [arrays |-> arrays, singles |-> singles, cards |-> cards,
     next_href |-> next_href, links |-> links]

\* str(self.transmission)
TransmissionText ==
    ("manual" :> <<"m", "a", "n", "u", "a", "l">>)
    @@ ("automatic" :> <<"a", "u", "t", "o", "m", "a", "t", "i", "c">>)
    @@ ("any" :> <<"a", "n", "y">>)

\* lines 241-249
search_urls ==
    LET base == search_url(self.make, self.model)
        tr == <<"t", "r", "a", "n", "s", "m", "i", "s", "s", "i", "o", "n",
                "=">> \o TransmissionText[self.transmission]
        yr == <<"y", "e", "a", "r", "=">> \o NatToStr(self.year_start) \o <<",">>
              \o NatToStr(self.year_end)
    IN  <<base,
          IF self.transmission # "any" THEN base \o <<"?">> \o tr ELSE base,
          IF self.transmission # "any" THEN base \o <<"?">> \o yr \o <<"&">> \o tr
          ELSE base \o <<"?">> \o yr,
          base \o <<"?", "s", "o", "r", "t", "=", "p", "r", "i", "c", "e",
                    "_", "a", "s", "c">>,
          base \o <<"?", "s", "o", "r", "t", "=", "p", "r", "i", "c", "e",
                    "_", "d", "e", "s", "c">>,
          base \o <<"?", "s", "o", "r", "t", "=", "m", "i", "l", "e", "a",
                    "g", "e", "_", "a", "s", "c">>>>

\* s.split(sep)[0]
RECURSIVE SplitHead(_, _)
SplitHead(s, sep) ==
    IF Len(s) = 0 \/ StartsWith(s, sep) THEN <<>>
    ELSE <<s[1]>> \o SplitHead(Tail(s), sep)

\* lines 559-564: the first link to the search with a page= parameter
RECURSIVE PageLink(_, _)
PageLink(hrefs, n) ==
    IF Len(hrefs) = 0 THEN None
    ELSE IF /\ Contains(<<"c", "a", "r", "m", "a", "x", ".", "c", "o", "m",
                          "/", "c", "a", "r", "s", "/">> \o Lower(self.make) \o <<"/">>
                        \o Lower(self.model), hrefs[1])
            /\ Contains(<<"p", "a", "g", "e", "=">>, hrefs[1])
    THEN StrV(SplitHead(hrefs[1], <<"p", "a", "g", "e", "=">>) \o <<"p", "a", "g", "e", "=">> \o NatToStr(n))
    ELSE PageLink(Tail(hrefs), n)

\* lines 567-574 with page_num < 10 as the condition
Constructed_BelowLimit(n) ==
    IF n < 10
    THEN StrV(search_url(self.make, self.model) \o <<"?", "p", "a", "g", "e", "=">> \o NatToStr(n))
    ELSE None

\* lines 567-574: base_search_urls[0] if page_num <= 10 else None
Constructed(n) ==
    IF n <= 10
    THEN StrV(search_url(self.make, self.model) \o <<"?", "p", "a", "g", "e", "=">> \o NatToStr(n))
    ELSE None

\* _find_next_page(soup, page_num)
find_next_page(html, n) ==
    IF Truthy(html.next_href)
    THEN IF StartsWith(html.next_href.str, <<"/">>)
         THEN StrV(urljoin(base_url, html.next_href.str))
         ELSE html.next_href
    ELSE IF PageLink(html.links, n) # None THEN PageLink(html.links, n)
    ELSE Constructed(n)

\* line 418 with the limit one page later
PageLimitReached_OnePageLate(n) == n > page_limit + 1

\* line 418
PageLimitReached(n) == n > page_limit

\* [l for l in ls if self._is_valid_listing(l)], for the scraper sp
ValidListings(sp, ls) == SelectSeq(ls, LAMBDA l : is_valid_listing(sp, l))

\* lines 337-348 and 399-412: the valid conversions of the embedded objects
JsListings(sp, html) ==
    LET found == parse_javascript_data(html)
    IN  ValidListings(sp, [k \in 1..Len(found) |-> convert_js_listing(found[k])])

\* lines 374-381: the valid extractions of the car elements
MarkupListings(sp, html) ==
    ValidListings(sp, [k \in 1..Len(html.cards) |->
                          extract_car_data(html.cards[k])])
NoArrays == [k \in 1..js_patterns |-> <<>>]
NoSingles == [k \in 1..car_patterns |-> <<>>]

\* a page whose first pattern has one match, the array cars_data
ConstCars(cars_data) == [k \in 1..js_patterns |->
                            IF k = 1 THEN <<Parsed(cars_data)>> ELSE <<>>]

\* a car element for a 2018 BMW M2 Manual
ManualCard ==
    Card(At(title_selectors, 1, StrV(<<"2", "0", "1", "8", " ", "B", "M",
                                       "W", " ", "M", "2", " ", "M", "a",
                                       "n", "u", "a", "l">>)),
         At(price_selectors, 1, StrV(<<"$", "4", "6", ",", "0", "0", "0", "*">>)),
         NoMatch(mileage_selectors), StrV(<<"/", "c", "a", "r", "/", "9">>))

AudiS3 == Car("make" :> StrV(<<"A", "u", "d", "i">>))

\* the pages the site may answer with
PagePool ==
    {Page(NoArrays, NoSingles, <<>>, Absent, <<>>),
     Page(ConstCars(<<AudiS3>>), NoSingles, <<>>, Absent, <<>>),
     Page(ConstCars(<<Car(<<>>)>>), NoSingles, <<>>, Absent, <<>>),
     Page(NoArrays, NoSingles, <<ManualCard>>, Absent, <<>>),
     Page(ConstCars(<<Car("url" :> url_2)>>), NoSingles, <<ManualCard>>,
          Absent, <<>>),
     Page(ConstCars(<<AudiS3>>), NoSingles, <<>>,
          StrV(<<"/", "c", "a", "r", "s", "/", "b", "m", "w", "/", "m", "2",
                 "?", "p", "a", "g", "e", "=", "3">>), <<>>),
     Page(ConstCars(<<AudiS3>>), NoSingles, <<>>, Absent,
          <<<<"h", "t", "t", "p", "s", ":", "/", "/", "w", "w", "w", ".",
              "c", "a", "r", "m", "a", "x", ".", "c", "o", "m", "/", "c",
              "a", "r", "s", "/", "b", "m", "w", "/", "m", "2", "?", "s",
              "o", "r", "t", "=", "p", "r", "i", "c", "e", "_", "a", "s",
              "c", "&", "p", "a", "g", "e", "=", "1">>>>),
     Page(ConstCars(<<Car("transmission" :> None)>>), NoSingles, <<>>,
          Absent, <<>>)}

\* the search parameters of the walks
WalkParams == {Params("manual", <<None, None>>)}

\* lines 405-412: what a later page adds to listings
LaterPageListings ==
    [sp \in WalkParams |-> [html \in PagePool |-> JsListings(sp, html)]]

\* lines 337-381: what the start page adds to listings
StartPageListings ==
    [sp \in WalkParams |-> [html \in PagePool |->
        JsListings(sp, html) \o MarkupListings(sp, html)]]

\* the number of entries of a page that name the configured car
Matching ==
    [sp \in WalkParams |-> [html \in PagePool |->
        Len(JsListings(sp, html)) + Len(MarkupListings(sp, html))]]

\* line 401: not next_js_listings
NoJsListings == [html \in PagePool |-> parse_javascript_data(html) = <<>>]

\* the site has this page to serve
Servable(html) == served + Matching[self][html] <= MaxServed

InitWalk ==
    /\ self \in WalkParams
    /\ pc = "home"
    /\ candidates = 0
    /\ listings = <<>>
    /\ unique_listings = <<>>
    /\ verdicts = <<>>
    /\ filtered_listings = <<>>
    /\ result = <<>>
    /\ raised = FALSE
    /\ RequestIdle
    /\ WalkIdle
    /\ MainIdle
    /\ ExtractIdle

\* lines 234-238 with a failed entry request ending the run
AfterSession_Abort(homepage) == IF homepage = "Response" THEN "start" ELSE "returned"

\* lines 234-238: both branches go on to the search
AfterSession(homepage) == "start"

\* lines 233-238: self._make_request(self.base_url)
EstablishSession ==
    /\ pc = "home"
    /\ \E answer \in {"Response", "None"} :
          /\ response' = answer
          /\ pc' = AfterSession(answer)
    /\ rq_url' = base_url
    /\ home_requests' = home_requests + 1
    /\ variant' = 1
    /\ UNCHANGED <<self, candidates, listings, unique_listings, verdicts,
                   filtered_listings, result, raised, rq_pc, attempt, rq_log,
                   headers, page_listings, page_num, soup, page, start_requests,
                   page_requests, served, stop, main_vars, extract_vars>>

\* line 427 and lines 253-254: _scrape_search_page returns its listings,
\* scrape_listings extends its own and takes the next search_url
EndWalk(reason, returned) ==
    /\ stop' = reason
    /\ page_listings' = returned
    /\ listings' = listings \o returned
    /\ variant' = variant + 1
    /\ pc' = "start"
    /\ page_num' = 0
    /\ soup' = <<>>

\* lines 330-332: the request for the start page fails
StartPageFails ==
    /\ pc = "start"
    /\ variant <= search_variants
    /\ rq_url' = search_urls[variant]
    /\ response' = "None"
    /\ start_requests' = start_requests + 1
    /\ page_requests' = 1
    /\ page' = <<>>
    /\ EndWalk("start_failed", <<>>)
    /\ UNCHANGED <<self, candidates, unique_listings, verdicts,
                   filtered_listings, result, raised, rq_pc, attempt, rq_log,
                   headers, home_requests, served,
                   main_vars, extract_vars>>

\* lines 330-384: the start page is fetched and both strategies read it
StartPageOk ==
    /\ pc = "start"
    /\ variant <= search_variants
    /\ rq_url' = search_urls[variant]
    /\ response' = "Response"
    /\ start_requests' = start_requests + 1
    /\ page_requests' = 1
    /\ \E html \in PagePool :
          /\ Servable(html)
          /\ served' = served + Matching[self][html]
          /\ page' = <<html>>
          /\ soup' = <<html>>
          /\ page_listings' = StartPageListings[self][html]
    /\ page_num' = 2
    /\ pc' = "paginate"
    /\ stop' = ""
    /\ UNCHANGED <<self, candidates, listings, unique_listings, verdicts,
                   filtered_listings, result, raised, rq_pc, attempt, rq_log,
                   headers, variant, home_requests,
                   main_vars, extract_vars>>
\* lines 394-396 and 427 with the gathered listings dropped on a failure
AfterFailedFetch_Dropped(gathered) == <<>>

\* lines 394-396 and 427: break, then return listings
AfterFailedFetch(gathered) == gathered

\* lines 386-396: the loop ends without a further page, because
\* _find_next_page gives no URL or because the request for it fails
NoFurtherPage ==
    /\ pc = "paginate"
    /\ LET next_page == find_next_page(soup[1], page_num)
       IN  IF ~Truthy(next_page)
           THEN /\ EndWalk("no_next", page_listings)
                /\ UNCHANGED <<rq_url, response, page_requests, page>>
           ELSE /\ rq_url' = next_page.str
                /\ response' = "None"
                /\ page_requests' = page_requests + 1
                /\ page' = <<>>
                /\ EndWalk("fetch_failed", AfterFailedFetch(page_listings))
    /\ UNCHANGED <<self, candidates, unique_listings, verdicts,
                   filtered_listings, result, raised, rq_pc, attempt, rq_log,
                   headers, home_requests,
                   start_requests, served, main_vars, extract_vars>>

\* lines 393-403: the next page is fetched and has no embedded data
NextPageEmpty ==
    /\ pc = "paginate"
    /\ LET next_page == find_next_page(soup[1], page_num)
       IN  /\ Truthy(next_page)
           /\ rq_url' = next_page.str
    /\ response' = "Response"
    /\ page_requests' = page_requests + 1
    /\ \E html \in PagePool :
          /\ Servable(html)
          /\ NoJsListings[html]
          /\ served' = served + Matching[self][html]
          /\ page' = <<html>>
    /\ EndWalk("no_listings", page_listings)
    /\ UNCHANGED <<self, candidates, unique_listings, verdicts,
                   filtered_listings, result, raised, rq_pc, attempt, rq_log,
                   headers, home_requests,
                   start_requests, main_vars, extract_vars>>

\* lines 393-420: the next page is fetched and has embedded data
NextPageListings ==
    /\ pc = "paginate"
    /\ LET next_page == find_next_page(soup[1], page_num)
       IN  /\ Truthy(next_page)
           /\ rq_url' = next_page.str
    /\ response' = "Response"
    /\ page_requests' = page_requests + 1
    /\ \E html \in PagePool :
          /\ Servable(html)
          /\ ~NoJsListings[html]
          /\ served' = served + Matching[self][html]
          /\ page' = <<html>>
          /\ IF PageLimitReached(page_num + 1)
             THEN EndWalk("limit",
                          page_listings \o LaterPageListings[self][html])
             ELSE /\ page_listings' =
                        page_listings \o LaterPageListings[self][html]
                  /\ soup' = <<html>>
                  /\ page_num' = page_num + 1
                  /\ UNCHANGED <<listings, variant, pc, stop>>
    /\ UNCHANGED <<self, candidates, unique_listings, verdicts,
                   filtered_listings, result, raised, rq_pc, attempt, rq_log,
                   headers, home_requests, start_requests,
                   main_vars, extract_vars>>

\* lines 259-265: all search_urls are done; remove duplicates
SearchDone ==
    /\ pc = "start"
    /\ variant > search_variants
    /\ pc' = "filter"
    /\ unique_listings' = RemoveDuplicates(listings, {}, <<>>)
    /\ UNCHANGED <<self, candidates, listings, verdicts, filtered_listings,
                   result, raised, request_vars, walk_vars, main_vars,
                   extract_vars>>

NextWalk ==
    \/ EstablishSession
    \/ StartPageFails
    \/ StartPageOk
    \/ NoFurtherPage
    \/ NextPageEmpty
    \/ NextPageListings
    \/ SearchDone
    \/ FilterOne
    \/ FilterFails
    \/ Return

SpecWalk == InitWalk /\ [][NextWalk]_vars

\* the walk of the last search_url, after the entry request and five start
\* pages that could not be fetched
InitPaging ==
    /\ self \in WalkParams
    /\ pc = "start"
    /\ candidates = 0
    /\ listings = <<>>
    /\ unique_listings = <<>>
    /\ verdicts = <<>>
    /\ filtered_listings = <<>>
    /\ result = <<>>
    /\ raised = FALSE
    /\ rq_pc = "idle" /\ attempt = 0 /\ rq_log = <<>>
    /\ headers = [user_agent |-> 1, referer |-> FALSE, sec_fetch_site |-> "none"]
    /\ rq_url = search_urls[search_variants - 1]
    /\ response = "None"
    /\ variant = search_variants
    /\ page_listings = <<>> /\ page_num = 0 /\ soup = <<>> /\ page = <<>>
    /\ home_requests = 1
    /\ start_requests = search_variants - 1
    /\ page_requests = 1
    /\ served = 0
    /\ stop = "start_failed"
    /\ MainIdle
    /\ ExtractIdle

NextPaging ==
    \/ StartPageFails
    \/ StartPageOk
    \/ NoFurtherPage
    \/ NextPageEmpty
    \/ NextPageListings

\* _scrape_search_page runs in one thread, statement after statement, and
\* _make_request returns (C10): a step that can be taken is taken
SpecPaging == InitPaging /\ [][NextPaging]_vars /\ WF_vars(NextPaging)

(***************************************************************************)
(* Properties of the page walk                                             *)
(***************************************************************************)
\* the walk of one search_url is within its page limit
WalkBounded ==
    /\ page_requests <= page_limit
    /\ pc = "paginate" => (page_num \in 2..page_limit /\ page_requests = page_num - 1)
    /\ stop = "limit" => page_requests = page_limit

\* a step of the pagination loop ends the walk exactly when there is no next
\* URL, the request fails, the page has no embedded data or the counter
\* passes 10
StopsAtFirstReason ==
    pc = "paginate" =>
        ((pc' # "paginate") <=>
            \/ ~Truthy(find_next_page(soup[1], page_num))
            \/ response' = "None"
            \/ (page' # <<>> /\ NoJsListings[page'[1]])
            \/ page_num + 1 > 10)

\* C11: the walk of one search URL ends; it ends at the first of: no
\* next-page URL, a failed request, a page without embedded data, the page
\* counter above 10; no page numbered above 10 is requested and at most 10
\* pages are requested per search URL.
C11_WalkTerminates ==
    /\ []WalkBounded
    /\ [][StopsAtFirstReason]_vars
    /\ (pc = "paginate") ~> (pc = "start" /\ variant > search_variants)

\* C11 witness: a walk that requested the start page and the pages 2 to 10 and
\* ended at the page limit.
C11_Witness ==
    /\ stop = "limit"
    /\ page_requests = 10
    /\ pc = "start"

\* a request for a page of a search URL was made in this step and failed
PageRequestFailed ==
    /\ start_requests' = start_requests + 1 \/ page_requests' = page_requests + 1
    /\ response' = "None"

\* C12: when the request for a page of a search URL fails, the walk of that
\* URL ends without raising and returns exactly the candidates of the pages
\* fetched before (none when it is the start page), and scrape_listings goes
\* on with the next search URL.
C12_FetchFailureEndsBranch ==
    [][PageRequestFailed =>
          /\ ~raised'
          /\ page_listings' = (IF pc = "start" THEN <<>> ELSE page_listings)
          /\ listings' = listings \o page_listings'
          /\ pc' = "start"
          /\ variant' = variant + 1]_vars

\* C12 witness: the request for a later page failed after the walk had
\* gathered candidates, and a further search URL is still to come.
C12_Witness ==
    /\ stop = "fetch_failed"
    /\ response = "None"
    /\ page_listings # <<>>
    /\ pc = "start"
    /\ variant <= search_variants

\* t is the end of s
EndsWith(s, t) ==
    Len(t) <= Len(s) /\ SubSeq(s, Len(s) - Len(t) + 1, Len(s)) = t

\* C13: the valid candidates of both strategies of every page fetched, the
\* start page or a later one, are merged into the listings of the walk.
C13_BothStrategiesMerged ==
    (pc \in {"start", "paginate"} /\ response = "Response" /\ page # <<>>) =>
        EndsWith(page_listings, StartPageListings[self][page[1]])

\* the requests of a run: the entry point once and first, then every search URL
SessionFirst ==
    /\ home_requests <= 1
    /\ (pc = "home") <=> (home_requests = 0)
    /\ pc = "home" => (start_requests = 0 /\ page_requests = 0 /\ variant = 0)
    /\ pc \in {"filter", "returned"} => start_requests = search_variants
    /\ (pc = "returned" /\ ~raised) =>
          \A i \in 1..Len(unique_listings) :
              Keep(Locals(self, unique_listings[i])) => Returned(i)

\* C14: a run requests the site entry point exactly once and before any
\* search URL; whether that request succeeds or fails the run goes on to walk
\* every search URL and returns the filtered results.
C14_SessionOnceAndFirst ==
    /\ []SessionFirst
    /\ [][pc = "home" => (rq_url' = base_url /\ pc' = "start" /\ variant' = 1)]_vars

\* C14 witness: the entry request has just failed and the first search URL is
\* about to be walked.
C14_Witness ==
    /\ home_requests = 1
    /\ rq_url = base_url
    /\ response = "None"
    /\ pc = "start"
    /\ variant = 1

(***************************************************************************)
(* The embedded-data strategy on its own: _parse_javascript_data on one    *)
(* page, then _convert_js_listing on each object it returned               *)
(***************************************************************************)
\* objects in an embedded array
MaxObjects == 2

\* car objects that exercise the fallback chains
ObjectPool ==
    {Car(<<>>),
     Car(("price" :> IntV(44000)) @@ ("listPrice" :> IntV(43000))),
     CarWithout({"basePrice"}, ("price" :> IntV(44000)) @@ ("listPrice" :> IntV(43000))),
     CarWithout({"basePrice"}, "listPrice" :> IntV(43000)),
     Car("basePrice" :> StrV(<<"4", "5", "0", "0", "0">>)),
     Car("basePrice" :> StrV(<<"$", "4", "5", ",", "0", "0", "0">>)),
     CarWithout({"mileage"}, "odometer" :> IntV(50000)),
     Car(("storeCity" :> StrV(<<"R", "e", "n", "o">>)) @@ ("stateAbbreviation" :> StrV(<<"N", "V">>))
         @@ ("location" :> StrV(<<"L", "o", "t", " ", "4">>))),
     Car(("storeCity" :> StrV(<<"R", "e", "n", "o">>)) @@ ("location" :> StrV(<<"L", "o", "t", " ", "4">>))
         @@ ("city" :> StrV(<<"E", "l", "k", "o">>)) @@ ("state" :> StrV(<<"N", "V">>))),
     Car(("city" :> StrV(<<"E", "l", "k", "o">>)) @@ ("state" :> StrV(<<"N", "V">>))),
     CarWithout({"url"}, "stockNumber" :> IntV(7)),
     CarWithout({"transmission"}, ("transmissionType" :> Automatic)
                                  @@ ("isReserved" :> BoolV(TRUE)))}

\* the arrays of up to MaxObjects objects
RECURSIVE ArraysOf(_)
ArraysOf(n) ==
    IF n = 0 THEN {<<>>}
    ELSE LET shorter == ArraysOf(n - 1)
         IN  shorter \cup {Append(a, o) : a \in {b \in shorter : Len(b) = n - 1},
                                          o \in ObjectPool}

\* an array of five objects
FiveCars ==
    <<Car(<<>>), CarWithout({"basePrice"}, "listPrice" :> IntV(43000)),
      CarWithout({"mileage"}, "odometer" :> IntV(50000)),
      CarWithout({"url"}, "stockNumber" :> IntV(7)),
      Car(("city" :> StrV(<<"E", "l", "k", "o">>)) @@ ("state" :> StrV(<<"N", "V">>)))>>

\* the ways the page text can hold the array cars_data: alone; after a match
\* that is no JSON and before an array of another pattern; after an empty
\* array of the same pattern; under the last pattern only
Embeddings(cars_data) ==
    {<< <<Parsed(cars_data)>>, <<>>, <<>>, <<>> >>,
     << <<JSONDecodeError>>, <<Parsed(cars_data)>>, <<Parsed(<<AudiS3>>)>>, <<>> >>,
     << <<Parsed(<<>>), Parsed(cars_data)>>, <<>>, <<>>, <<Parsed(<<AudiS3>>)>> >>,
     << <<>>, <<>>, <<>>, <<JSONDecodeError, Parsed(cars_data)>> >>}

\* group tuples of the car_patterns: (stockNumber, vin, year, make, model)
\* of the first, (vin, year, make, model) of the second
StockVinGroups == <<<<"7">>, <<"W", "B", "S", "1">>, <<"2", "0", "1", "8">>, <<"B", "M", "W">>, <<"M", "2">>>>
VinGroups == <<<<"W", "B", "S", "1">>, <<"2", "0", "1", "8">>, <<"B", "M", "W">>, <<"M", "2">>>>

ExtractPages ==
    {Page(found, NoSingles, <<>>, Absent, <<>>) :
        found \in UNION {Embeddings(a) : a \in ArraysOf(MaxObjects) \cup {FiveCars}}}
    \cup {Page(NoArrays, << <<>>, <<VinGroups>> >>, <<>>, Absent, <<>>),
          Page(NoArrays, << <<StockVinGroups>>, <<VinGroups>> >>, <<>>, Absent, <<>>)}

InitExtract ==
    /\ self = Params("manual", <<None, None>>)
    /\ pc = "search"
    /\ candidates = 0
    /\ listings = <<>>
    /\ unique_listings = <<>>
    /\ verdicts = <<>>
    /\ filtered_listings = <<>>
    /\ result = <<>>
    /\ raised = FALSE
    /\ RequestIdle
    /\ WalkIdle
    /\ MainIdle
    /\ ex_pc = "parse"
    /\ ex_page \in {<<html>> : html \in ExtractPages}
    /\ ex_cars = <<>>
    /\ converted = <<>>

\* line 337: js_listings = self._parse_javascript_data(response.text)
ParseJavascriptData ==
    /\ ex_pc = "parse"
    /\ ex_cars' = parse_javascript_data(ex_page[1])
    /\ ex_pc' = "convert"
    /\ UNCHANGED <<scrape_vars, request_vars, walk_vars, main_vars, ex_page,
                   converted>>

\* lines 340-341: listing = self._convert_js_listing(js_listing), in turn
ConvertJsListing ==
    /\ ex_pc = "convert"
    /\ Len(converted) < Len(ex_cars)
    /\ converted' = Append(converted,
                           convert_js_listing(ex_cars[Len(converted) + 1]))
    /\ UNCHANGED <<scrape_vars, request_vars, walk_vars, main_vars, ex_pc,
                   ex_page, ex_cars>>

NextExtract ==
    \/ ParseJavascriptData
    \/ ConvertJsListing

SpecExtract == InitExtract /\ [][NextExtract]_vars

(***************************************************************************)
(* Properties of the embedded-data strategy                                *)
(***************************************************************************)
\* the value of the first of keys that js_data has, else default
RECURSIVE FirstPresent(_, _, _)
FirstPresent(js_data, keys, default) ==
    IF Len(keys) = 0 THEN default
    ELSE IF js_data[keys[1]] # Absent THEN js_data[keys[1]]
    ELSE FirstPresent(js_data, Tail(keys), default)

Has(js_data, keys) == \A k \in keys : js_data[k] # Absent

\* listing has its fields from js_data by the fallback chains
ChainsMapped(js_data, listing) ==
    /\ listing.price =
          IF Has(js_data, {"basePrice"}) THEN IntV(IntOf(js_data["basePrice"]))
          ELSE FirstPresent(js_data, <<"price", "listPrice">>, None)
    /\ listing.mileage = FirstPresent(js_data, <<"mileage", "odometer">>, None)
    /\ listing.location =
          IF Has(js_data, {"storeCity", "stateAbbreviation"})
          THEN StrV(js_data["storeCity"].str \o <<",", " ">>
                    \o js_data["stateAbbreviation"].str)
          ELSE IF Has(js_data, {"location"}) THEN js_data["location"]
          ELSE IF Has(js_data, {"city", "state"})
          THEN StrV(js_data["city"].str \o <<",", " ">> \o js_data["state"].str)
          ELSE StrV(<<>>)
    /\ listing.url =
          IF Has(js_data, {"url"}) THEN js_data["url"]
          ELSE IF Has(js_data, {"stockNumber"})
          THEN StrV(<<"h", "t", "t", "p", "s", ":", "/", "/", "w", "w", "w",
                      ".", "c", "a", "r", "m", "a", "x", ".", "c", "o", "m",
                      "/", "c", "a", "r", "s", "/">>
                    \o IntToStr(js_data["stockNumber"].int))
          ELSE StrV(<<>>)
    /\ listing.transmission =
          FirstPresent(js_data, <<"transmission", "transmissionType">>, StrV(<<>>))

\* int(basePrice) does not raise
PriceConverts(js_data) ==
    js_data["basePrice"] = Absent \/ ~IntRaises(js_data["basePrice"])

OtherFields(listing) ==
    <<listing.mileage, listing.location, listing.url, listing.transmission,
      listing.is_reserved, listing.is_saleable, listing.is_coming_soon>>

\* C19: an object whose basePrice does not convert to an integer gives a
\* candidate without price and with every other field as the same object
\* without basePrice gives it.
C19_OnlyPriceAbsent ==
    \A k \in 1..Len(converted) :
        ~PriceConverts(ex_cars[k]) =>
            /\ converted[k].price = None
            /\ OtherFields(converted[k]) =
                  OtherFields(convert_js_listing(
                      [ex_cars[k] EXCEPT !["basePrice"] = Absent]))

(***************************************************************************)
(* main (src/main.py) with ListingDatabase (src/database.py) and           *)
(* EmailNotifier (src/notifier.py), run after run on one database file.    *)
(* The clock counts days; environ is <<EMAIL_USER, EMAIL_PASSWORD,         *)
(* NOTIFICATION_EMAIL, SMTP_PORT>>, None for a variable that is not set.   *)
(***************************************************************************)
\* runs of main on one database
MaxRuns == 2

\* listings scrape_listings returns in one run
MaxListings == 2

\* cleanup_old_listings(days_old=30), main.py line 120
days_old == 30

\* os.getenv('SMTP_PORT', '587')
DefaultPort == StrV(<<"5", "8", "7">>)

\* line 27: all([self.email_user, self.email_password,
\* self.notification_email]) with the first of them tested only
Enabled_UserOnly(env) == Truthy(env[1])

\* line 27: all([self.email_user, self.email_password, self.notification_email])
Enabled(env) == Truthy(env[1]) /\ Truthy(env[2]) /\ Truthy(env[3])

\* test_connection: False when the notifier is disabled, otherwise whether
\* the server accepted the login
test_connection(is_enabled, reachable) == is_enabled /\ reachable

\* line 22: int(os.getenv('SMTP_PORT', '587')) raises ValueError
PortRaises(env) == IntRaises(IF env[4] = None THEN DefaultPort ELSE env[4])

\* the value SQLite stores in a column of the given affinity
Affinity(v, column) ==
    CASE v.kind \in {"absent", "none"} -> None
      [] v.kind = "bool" ->
            IF column = "INTEGER" THEN IntV(v.int) ELSE StrV(IntToStr(v.int))
      [] v.kind = "int" ->
            IF column = "INTEGER" THEN v ELSE StrV(IntToStr(v.int))
      [] OTHER ->
            IF column = "INTEGER" /\ ~IntRaises(v) THEN IntV(IntOf(v)) ELSE v

\* lines 73-86 and the DEFAULTs of lines 36-38: the row INSERT makes
NewRow(listing, id, t) ==
    [source |-> Affinity(listing.source, "TEXT"),
     title |-> Affinity(listing.title, "TEXT"),
     price |-> Affinity(listing.price, "INTEGER"),
     mileage |-> Affinity(listing.mileage, "INTEGER"),
     location |-> Affinity(listing.location, "TEXT"),
     url |-> Affinity(listing.url, "TEXT"),
     year |-> Affinity(listing.year, "INTEGER"),
     transmission |-> Affinity(listing.transmission, "TEXT"),
     id |-> id, first_seen |-> t, last_seen |-> t, notified |-> FALSE]

\* lines 28, 29, 33: NOT NULL
NotNullFails(listing) ==
    \/ Affinity(listing.source, "TEXT") = None
    \/ Affinity(listing.title, "TEXT") = None
    \/ Affinity(listing.url, "TEXT") = None

\* WHERE url = ?
UrlIs(row, url) == url # None /\ row.url = Affinity(url, "TEXT")

\* lines 62-63: cursor.fetchone() of SELECT id FROM listings WHERE url = ?
Exists(table, url) == \E i \in 1..Len(table) : UrlIs(table[i], url)

\* lines 65-69 with first_seen set as well
Touch_FirstSeen(row, t) == [row EXCEPT !.first_seen = t, !.last_seen = t]

\* lines 65-69: SET last_seen = CURRENT_TIMESTAMP
Touch(row, t) == [row EXCEPT !.last_seen = t]

\* add_listing returning True for a url that has a row as well
add_listing_SeenIsNew(table, listing, id, t) ==
    IF Exists(table, listing.url)
    THEN <<[i \in 1..Len(table) |->
              IF UrlIs(table[i], listing.url) THEN Touch(table[i], t) ELSE table[i]],
           TRUE>>
    ELSE IF NotNullFails(listing) THEN <<table, FALSE>>
    ELSE <<Append(table, NewRow(listing, id, t)), TRUE>>

\* add_listing: <<the table after the call, what the call returns>>
add_listing(table, listing, id, t) ==
    IF Exists(table, listing.url)
    THEN <<[i \in 1..Len(table) |->
              IF UrlIs(table[i], listing.url) THEN Touch(table[i], t) ELSE table[i]],
           FALSE>>
    ELSE IF NotNullFails(listing) THEN <<table, FALSE>>
    ELSE <<Append(table, NewRow(listing, id, t)), TRUE>>

\* get_new_listings: WHERE notified = FALSE (the order of the rows, by
\* first_seen, is not kept: main uses the result as a set of ids)
get_new_listings(table) == SelectSeq(table, LAMBDA row : ~row.notified)

\* main.py lines 110-111 without the test of the url
new_listing_ids_AllUnnotified(table, news) ==
    LET unnotified == get_new_listings(table)
    IN  {unnotified[i].id : i \in 1..Len(unnotified)}

\* main.py lines 110-111
new_listing_ids(table, news) ==
    LET unnotified == get_new_listings(table)
    IN  {unnotified[i].id :
            i \in {j \in 1..Len(unnotified) :
                      \E k \in 1..Len(news) : UrlIs(unnotified[j], news[k].url)}}

\* mark_as_notified
mark_as_notified(table, listing_ids) ==
    [i \in 1..Len(table) |->
        IF table[i].id \in listing_ids THEN [table[i] EXCEPT !.notified = TRUE]
        ELSE table[i]]

\* cleanup_old_listings: DELETE WHERE last_seen < datetime('now', '-30 days')
cleanup_old_listings(table, t) ==
    SelectSeq(table, LAMBDA row : ~(row.last_seen < t - days_old))

\* a record as scrape_listings returns it for the embedded object js_data
Listed(js_data) ==
    LET listing == convert_js_listing(js_data)
    IN  [listing EXCEPT !.status = status_str(listing)]

\* records scrape_listings may return: two cars, the first of them at a new
\* price, and a car whose url is null in the embedded data
ListingPool ==
    {Listed(Car(<<>>)), Listed(Car("url" :> url_2)),
     Listed(Car("basePrice" :> IntV(44000))), Listed(Car("url" :> None))}

\* the lists scrape_listings may return: no two records with one url (C1)
RECURSIVE ScrapeResults(_)
ScrapeResults(n) ==
    IF n = 0 THEN {<<>>}
    ELSE LET shorter == ScrapeResults(n - 1)
         IN  shorter \cup
             {Append(ls, l) : ls \in {b \in shorter : Len(b) = n - 1},
                              l \in ListingPool}

DistinctUrls(ls) ==
    \A i, j \in 1..Len(ls) : ls[i].url = ls[j].url => i = j

\* what the environment may hold
Environs ==
    LET set == StrV(<<"x">>)
    IN  {<<set, set, set, None>>, <<None, set, set, None>>,
         <<set, StrV(<<>>), set, StrV(<<"2", "5", "2", "5">>)>>, <<set, set, None, None>>,
         <<set, set, set, StrV(<<"s", "m", "t", "p">>)>>, <<None, None, None, StrV(<<"s", "m", "t", "p">>)>>}

\* days between two runs
Elapsed == {0, days_old + 1}

InitMain ==
    /\ self = Params("manual", <<None, None>>)
    /\ pc = "search"
    /\ candidates = 0
    /\ listings = <<>>
    /\ unique_listings = <<>>
    /\ verdicts = <<>>
    /\ filtered_listings = <<>>
    /\ result = <<>>
    /\ raised = FALSE
    /\ RequestIdle
    /\ WalkIdle
    /\ MainIdle
    /\ ExtractIdle

\* main.py lines 74-90: the database, the notifier and the scraper are made,
\* the connection is tested, scrape_listings returns
StartRun ==
    /\ m_pc = "idle"
    /\ runs < MaxRuns
    /\ \E env \in Environs, d \in (IF runs = 0 THEN {0} ELSE Elapsed),
          ls \in {b \in ScrapeResults(MaxListings) : DistinctUrls(b)} :
          /\ ~PortRaises(env)
          /\ environ' = env
          /\ enabled' = Enabled(env)
          /\ now' = now + d
          /\ smtp_sessions' = smtp_sessions + (IF Enabled(env) THEN 1 ELSE 0)
          /\ \E reachable \in (IF Enabled(env) THEN BOOLEAN ELSE {FALSE}) :
                connected' = test_connection(Enabled(env), reachable)
          /\ carmax_listings' = ls
    /\ runs' = runs + 1
    /\ m_pc' = "store"
    /\ all_new_listings' = <<>>
    /\ add_calls' = 0
    /\ record' = <<>>
    /\ added' = FALSE
    /\ send_calls' = 0
    /\ digest' = <<>>
    /\ sent' = FALSE
    /\ first_id' = next_id
    /\ UNCHANGED <<rows, next_id, digested, exit_code>>
    /\ UNCHANGED <<scrape_vars, request_vars, walk_vars, extract_vars>>

\* main.py lines 130-132: EmailNotifier() raises at notifier.py line 22
FatalError ==
    /\ m_pc = "idle"
    /\ runs < MaxRuns
    /\ \E env \in Environs, d \in (IF runs = 0 THEN {0} ELSE Elapsed) :
          /\ PortRaises(env)
          /\ environ' = env
          /\ now' = now + d
    /\ runs' = runs + 1
    /\ enabled' = FALSE
    /\ connected' = FALSE
    /\ carmax_listings' = <<>>
    /\ all_new_listings' = <<>>
    /\ add_calls' = 0
    /\ record' = <<>>
    /\ added' = FALSE
    /\ send_calls' = 0
    /\ digest' = <<>>
    /\ sent' = FALSE
    /\ exit_code' = 1
    /\ first_id' = next_id
    /\ UNCHANGED <<m_pc, smtp_sessions, rows, next_id, digested>>
    /\ UNCHANGED <<scrape_vars, request_vars, walk_vars, extract_vars>>

\* main.py lines 94-96: one iteration of for listing in carmax_listings
AddListing ==
    /\ m_pc = "store"
    /\ add_calls < Len(carmax_listings)
    /\ LET listing == carmax_listings[add_calls + 1]
           out == add_listing(rows, listing, next_id, now)
       IN  /\ rows' = out[1]
           /\ added' = out[2]
           /\ next_id' = IF out[2] THEN next_id + 1 ELSE next_id
           /\ record' = <<listing>>
           /\ all_new_listings' =
                 IF out[2] THEN Append(all_new_listings, listing)
                 ELSE all_new_listings
    /\ add_calls' = add_calls + 1
    /\ UNCHANGED <<m_pc, runs, now, environ, enabled, connected,
                   smtp_sessions, first_id, digested, carmax_listings,
                   send_calls, digest, sent, exit_code>>
    /\ UNCHANGED <<scrape_vars, request_vars, walk_vars, extract_vars>>

\* main.py lines 105, 116-117: no new listings found
NothingNew ==
    /\ m_pc = "store"
    /\ add_calls = Len(carmax_listings)
    /\ all_new_listings = <<>>
    /\ m_pc' = "cleanup"
    /\ UNCHANGED <<runs, now, environ, enabled, connected, smtp_sessions,
                   rows, next_id, first_id, digested, carmax_listings,
                   all_new_listings, add_calls, record, added, send_calls,
                   digest, sent, exit_code>>
    /\ UNCHANGED <<scrape_vars, request_vars, walk_vars, extract_vars>>

\* main.py lines 105-115 with send_notification: the message is sent only
\* by an enabled notifier, and the server may refuse it
SendNotification ==
    /\ m_pc = "store"
    /\ add_calls = Len(carmax_listings)
    /\ all_new_listings # <<>>
    /\ send_calls' = send_calls + 1
    /\ digest' = all_new_listings
    /\ digested' = digested \cup
          {rows[i].id : i \in {j \in 1..Len(rows) :
              \E k \in 1..Len(all_new_listings) :
                  UrlIs(rows[j], all_new_listings[k].url)}}
    /\ smtp_sessions' = smtp_sessions + (IF enabled THEN 1 ELSE 0)
    /\ \E ok \in (IF enabled THEN BOOLEAN ELSE {FALSE}) :
          /\ sent' = ok
          /\ rows' = IF ok
                     THEN mark_as_notified(rows,
                              new_listing_ids(rows, all_new_listings))
                     ELSE rows
    /\ m_pc' = "cleanup"
    /\ UNCHANGED <<runs, now, environ, enabled, connected, next_id,
                   first_id, carmax_listings, all_new_listings, add_calls,
                   record, added, exit_code>>
    /\ UNCHANGED <<scrape_vars, request_vars, walk_vars, extract_vars>>

\* main.py lines 119-128: cleanup, statistics, the run ends
Finish ==
    /\ m_pc = "cleanup"
    /\ rows' = cleanup_old_listings(rows, now)
    /\ exit_code' = 0
    /\ m_pc' = "idle"
    /\ UNCHANGED <<runs, now, environ, enabled, connected, smtp_sessions,
                   next_id, first_id, digested, carmax_listings,
                   all_new_listings, add_calls, record, added, send_calls,
                   digest, sent>>
    /\ UNCHANGED <<scrape_vars, request_vars, walk_vars, extract_vars>>

NextMain ==
    \/ StartRun
    \/ FatalError
    \/ AddListing
    \/ NothingNew
    \/ SendNotification
    \/ Finish

SpecMain == InitMain /\ [][NextMain]_vars

(***************************************************************************)
(* Properties of the database and of a run without credentials             *)
(***************************************************************************)
UniqueUrls ==
    \A i, j \in 1..Len(rows) : rows[i].url = rows[j].url => i = j

\* a step that is one call of add_listing with a record of section 3: its
\* source, title and url are text
AddStep ==
    /\ add_calls' = add_calls + 1
    /\ record'[1].source.kind = "str"
    /\ record'[1].title.kind = "str"
    /\ record'[1].url.kind = "str"

HasRow(table, url) == \E i \in 1..Len(table) : table[i].url = url

OnlyLastSeen(old, new) == new = [old EXCEPT !.last_seen = new.last_seen]

CredentialAbsent(env) == \E k \in 1..3 : env[k] = None \/ env[k] = StrV(<<>>)

AllStored ==
    \A k \in 1..Len(carmax_listings) :
        LET l == carmax_listings[k]
        IN  (l.url.kind = "str" /\ l.title.kind = "str") => HasRow(rows, l.url)

NextPageCases ==
    {Page(NoArrays, NoSingles, <<>>, href, links) :
        href \in {Absent, None, StrV(<<>>), StrV(<<"#">>), StrV(<<"/", "c", "a", "r", "s",
                                                                  "?", "p", "a", "g", "e",
                                                                  "=", "2">>),
                  StrV(<<"h", "t", "t", "p", "s", ":", "/", "/", "w", "w",
                         "w", ".", "c", "a", "r", "m", "a", "x", ".", "c",
                         "o", "m", "/", "c", "a", "r", "s", "/", "a", "l", "l">>)},
        links \in {<<>>, <<<<"/", "a", "b", "o", "u", "t">>>>,
                   <<<<"/", "a", "b", "o", "u", "t">>, <<"h", "t", "t", "p", "s",
                                                         ":", "/", "/", "w", "w",
                                                         "w", ".", "c", "a", "r",
                                                         "m", "a", "x", ".", "c",
                                                         "o", "m", "/", "c", "a",
                                                         "r", "s", "/", "b", "m",
                                                         "w", "/", "m", "2", "?",
                                                         "p", "a", "g", "e", "=", "1">>>>}}

\* neither a pagination element nor a page= link
NoPagination(html) == ~Truthy(html.next_href) /\ PageLink(html.links, 2) = None

IsUrl(v) == v.kind = "str" /\ Len(v.str) > 0

\* the query parameters of the search URLs other than the base one
VariantQueries == {<<"t", "r", "a", "n", "s", "m", "i", "s", "s", "i", "o",
                     "n", "=">>, <<"y", "e", "a", "r", "=">>, <<"s", "o", "r", "t", "=">>}

\* C21: in the pagination loop the page number is between 2 and 10 and
\* _find_next_page returns a URL for the page held and for every other page
\* content; for a page without pagination element and page= link it is the
\* base search URL with ?page=N appended, without the query parameters of
\* the search URL being walked; no walk ends for lack of a next-page URL;
\* a fetched start page is followed by the loop at page 2, every step of
\* the loop requests the URL _find_next_page gave, and page 2 is requested.
C21_AlwaysNextPage ==
    /\ [](pc = "paginate" =>
            /\ page_num \in 2..page_limit
            /\ \A html \in NextPageCases \cup {soup[1]} :
                  LET next_page == find_next_page(html, page_num)
                  IN  /\ IsUrl(next_page)
                      /\ NoPagination(html) =>
                            /\ next_page.str = search_urls[1]
                                  \o <<"?", "p", "a", "g", "e", "=">> \o NatToStr(page_num)
                            /\ \A q \in VariantQueries : ~Contains(q, next_page.str))
    /\ [](stop # "no_next")
    /\ [][(pc = "start" /\ response' = "Response" /\ page' # <<>>) =>
             (pc' = "paginate" /\ page_num' = 2)]_vars
    /\ [][pc = "paginate" =>
             /\ page_requests' = page_requests + 1
             /\ rq_url' = find_next_page(soup[1], page_num).str]_vars
    /\ (pc = "paginate" /\ page_num = 2) ~> (page_requests = 2)

\* the walk of the search URL sorted by mileage has fetched page 9 from the
\* constructed URL and is about to look for page 10
C21_Witness ==
    /\ pc = "paginate"
    /\ page_num = page_limit
    /\ variant = search_variants
    /\ NoPagination(soup[1])
    /\ rq_url = search_urls[1] \o <<"?", "p", "a", "g", "e", "=", "9">>

(***************************************************************************)
(* Properties of the notified flag and of the digests over the runs        *)
(***************************************************************************)
\* the row of the table with this id, as a set of at most one row
RowOf(table, id) == {table[i] : i \in {j \in 1..Len(table) : table[j].id = id}}

Ids(table) == {table[i].id : i \in 1..Len(table)}

Notified(table) == {table[i].id : i \in {j \in 1..Len(table) : table[j].notified}}

SendStep == send_calls' = send_calls + 1

InDigest(list, url) == \E k \in 1..Len(list) : list[k].url = url

\* C22: send_notification is called at most once in a run; a step in which
\* the notified flag of a row becomes true is a call of send_notification
\* that returned True with a list holding the row's url; a call that
\* returned False (failed or disabled) leaves the table as it was; and the
\* row of a flag that is true keeps it true as long as it is in the table.
C22_NotifiedOnlyAfterSend ==
    /\ [](send_calls <= 1)
    /\ [][\A id \in Notified(rows') \ Notified(rows) :
             /\ SendStep
             /\ sent'
             /\ \A row \in RowOf(rows', id) : InDigest(digest', row.url)]_vars
    /\ [][(SendStep /\ ~sent') => rows' = rows]_vars
    /\ [][Notified(rows) \cap Ids(rows') \subseteq Notified(rows')]_vars

\* a send succeeded for the listing inserted in this run, and the row of an
\* earlier run, whose send had failed, is still not notified
C22_Witness ==
    /\ runs = 2
    /\ send_calls = 1
    /\ sent
    /\ Len(rows) = 2
    /\ ~rows[1].notified
    /\ rows[2].notified
    /\ InDigest(digest, rows[2].url)
    /\ ~InDigest(digest, rows[1].url)

\* C23: every listing passed to send_notification has a row that was
\* inserted in this run and was in no digest before; a row of an earlier run
\* that is not notified stays not notified while it is in the table, and its
\* url is in no digest of this run.
C23_DigestOnlyWhenInserted ==
    /\ [][SendStep =>
             \A k \in 1..Len(digest') :
                 \E i \in 1..Len(rows) :
                     /\ rows[i].url = digest'[k].url
                     /\ rows[i].id >= first_id
                     /\ rows[i].id \notin digested]_vars
    /\ [][\A i \in 1..Len(rows) :
             (rows[i].id < first_id' /\ ~rows[i].notified) =>
                 /\ rows[i].id \notin Notified(rows')
                 /\ SendStep => ~InDigest(digest', rows[i].url)]_vars

\* a listing whose send failed or was skipped in the run that inserted it
\* was scraped again thirty-one days later by a run whose send succeeded:
\* it is stored, not notified, and not in the digest
C23_Witness ==
    /\ m_pc = "cleanup"
    /\ sent
    /\ \E i \in 1..Len(rows) :
          /\ rows[i].id < first_id
          /\ rows[i].id \in digested
          /\ ~rows[i].notified
          /\ rows[i].first_seen < rows[i].last_seen
          /\ ~InDigest(digest, rows[i].url)

====
